---- MODULE Spec2Model ----
(***************************************************************************)
(* A state-machine model of the fixed-function emulation layer of          *)
(* src/src/Android/GLESBridge.c.                                           *)
(*                                                                         *)
(* Conventions.                                                            *)
(*  - Every C global of the bridge is a variable with the same name.       *)
(*  - float values are modelled by integers: matrix entries, vertex        *)
(*    coordinates and texture coordinates in units, colour, alpha and fog  *)
(*    values in hundredths (1.0f is 100).  The inputs of the operations    *)
(*    are chosen so that every division of the code is exact.              *)
(*  - A C array a[n] is a function with domain 0..n-1.                     *)
(*  - out is the list of commands one entry point sent to the GL driver    *)
(*    and to the Android log during its call, of the reads it made of the  *)
(*    caller's vertex arrays, and of the value it returned; it is emptied  *)
(*    at the start of every call.                                          *)
(*  - lastCall names the entry point that ran last, with its arguments,    *)
(*    prevCall the entry point that ran before it, and budget counts the   *)
(*    calls the caller may still make.                                     *)
(*  - callerParams is the buffer of 16 floats the caller hands to          *)
(*    glGetFloatv as its params argument.                                  *)
(*  - stamp and destFiles are the version file and the extracted files in  *)
(*    the destination directory of src/src/Android/AndroidAssets.c, and    *)
(*    everCopiedAll records whether some run copied every file whole.      *)
(*  - gBtnDown, gBtnFinger, gJoyActive and gJoyFinger are the globals of   *)
(*    src/src/Android/TouchControls.c, and fingers records for every       *)
(*    finger what it went down on, or that it is lifted.                   *)
(*  - saved is an observer of the matrix stacks: for each stack, the       *)
(*    matrices that were on top when its depth grew, innermost last.       *)
(***************************************************************************)
EXTENDS Integers, Sequences, FiniteSets, TLC

\* ------------------------------------------------------------------------
\* Program constants
\* ------------------------------------------------------------------------

MATRIX_STACK_DEPTH == 32
MAX_LIGHTS == 8
IMM_MAX_VERTS == 8192

GL_MODELVIEW == 5888
GL_PROJECTION == 5889
GL_TEXTURE == 5890

GL_LIGHT0 == 16384
GL_AMBIENT == 4608
GL_DIFFUSE == 4609
GL_SPECULAR == 4610
GL_POSITION == 4611
GL_LIGHT_MODEL_AMBIENT == 2899

GL_FOG_START == 2915
GL_FOG_END == 2916
GL_FOG_DENSITY == 2914
GL_FOG_COLOR == 2918
GL_FOG_MODE == 2917
GL_LINEAR == 9729

GL_ALWAYS == 519

GL_LIGHTING == 2896
GL_COLOR_MATERIAL == 2903
GL_NORMALIZE == 2977
GL_ALPHA_TEST == 3008
GL_FOG == 2912
GL_TEXTURE_2D == 3553

GL_VERTEX_ARRAY == 32884
GL_NORMAL_ARRAY == 32885
GL_COLOR_ARRAY == 32886
GL_TEXTURE_COORD_ARRAY == 32888

\* ------------------------------------------------------------------------
\* Bounds of the model
\* ------------------------------------------------------------------------

\* calls the caller makes in one run of the matrix-engine specification
MaxMatrixCalls == 4

\* the calls the caller makes in one behaviour of Spec
MaxCalls == 2

\* the calls the caller makes in one behaviour of SpecImm
MaxImmCalls == 3

\* ------------------------------------------------------------------------
\* Math helpers
\* ------------------------------------------------------------------------

Mat4_Zero == [i \in 0..15 |-> 0]

Mat4_Identity == [i \in 0..15 |-> IF i \in {0, 5, 10, 15} THEN 1 ELSE 0]

\* Mat4_Multiply with its operands exchanged: b * a
Mat4_Multiply_Reversed(a, b) ==
    [i \in 0..15 |->
        LET row == i % 4
            col == i \div 4
        IN  b[0 * 4 + row] * a[col * 4 + 0] + b[1 * 4 + row] * a[col * 4 + 1]
          + b[2 * 4 + row] * a[col * 4 + 2] + b[3 * 4 + row] * a[col * 4 + 3]]

Mat4_Multiply(a, b) ==
    [i \in 0..15 |->
        LET row == i % 4
            col == i \div 4
        IN  a[0 * 4 + row] * b[col * 4 + 0] + a[1 * 4 + row] * b[col * 4 + 1]
          + a[2 * 4 + row] * b[col * 4 + 2] + a[3 * 4 + row] * b[col * 4 + 3]]

\* a / b for the exact quotients the inputs of the model produce
FDiv(a, b) == IF b > 0 THEN a \div b ELSE (0 - a) \div (0 - b)

\* sqrtf on the perfect squares the inputs of the model produce
Sqrtf(n) == CHOOSE r \in 0..n : r * r = n

\* cosf and sinf of an angle in degrees, on the quarter turns
Cosf(deg) == CASE deg % 360 = 0 -> 1 [] deg % 360 = 180 -> -1 [] OTHER -> 0
Sinf(deg) == CASE deg % 360 = 90 -> 1 [] deg % 360 = 270 -> -1 [] OTHER -> 0

\* ------------------------------------------------------------------------
\* Matrix stacks
\* ------------------------------------------------------------------------

VARIABLES gMatMV, gMatProj, gMatTex, gCurrentStack, gCurrentMode

\* lighting, fog, alpha test, misc render state, current color
VARIABLES gLights, gGlobalAmbient, gFog, gAlphaTest, gLightingEnabled,
          gColorMaterialEnabled, gNormalizeEnabled, gTexture2DEnabled, gCurrentColor

\* client array state
VARIABLES gVertexArray, gNormalArray, gColorArray, gTexCoordArray

\* immediate mode buffers
VARIABLES gImmVerts, gImmVertCount, gImmMode, gImmCurrentNormal, gImmCurrentTexCoord

\* shader program, streaming buffers, and the uniform values of the program
VARIABLES gShaderProgram, gStreamVBO, gStreamIBO, gVAO, uniforms

\* the function-static scratch buffers of UploadClientArrays and bridge_End
VARIABLES uploadBuf, endBuf

\* caller and observation
VARIABLES crashed, budget, lastCall, prevCall, out, saved

\* the caller's memory the bridge writes into
VARIABLES callerParams

\* the destination directory of Android_ExtractAssets
VARIABLES stamp, destFiles, everCopiedAll

\* the touch controls and the fingers on the screen
VARIABLES gBtnDown, gBtnFinger, gJoyActive, gJoyFinger, fingers

matVars == <<gMatMV, gMatProj, gMatTex, gCurrentStack, gCurrentMode>>
lightVars == <<gLights, gGlobalAmbient>>
stateVars == <<gFog, gAlphaTest, gLightingEnabled, gColorMaterialEnabled,
               gNormalizeEnabled, gTexture2DEnabled, gCurrentColor>>
arrayVars == <<gVertexArray, gNormalArray, gColorArray, gTexCoordArray>>
immBufVars == <<gImmVerts, gImmVertCount, gImmMode>>
immVars == <<immBufVars, gImmCurrentNormal, gImmCurrentTexCoord>>
objVars == <<gShaderProgram, gStreamVBO, gStreamIBO, gVAO>>
gpuVars == <<objVars, uniforms>>
scratchVars == <<uploadBuf, endBuf>>
envVars == <<crashed, budget, lastCall, prevCall, out, saved>>
\* the legacy state the setters write and the flush reads
legacyVars == <<matVars, lightVars, stateVars, arrayVars, immVars>>
nonMatVars == <<lightVars, stateVars, arrayVars, immVars, gpuVars, scratchVars>>
callerVars == <<callerParams>>
\* the state outside GLESBridge.c
assetVars == <<stamp, destFiles, everCopiedAll>>
touchVars == <<gBtnDown, gBtnFinger, gJoyActive, gJoyFinger, fingers>>
outerVars == <<callerVars, assetVars, touchVars>>
vars == <<legacyVars, gpuVars, scratchVars, envVars, outerVars>>

\* static MatrixStack: zero-initialised storage
MatrixStack_Static == [stack |-> [i \in 0..(MATRIX_STACK_DEPTH - 1) |-> Mat4_Zero], top |-> 0]

\* MatStack_Init without s->top = 0
MatStack_Init_KeepTop(s) == [s EXCEPT !.stack[0] = Mat4_Identity]

MatStack_Init(s) == [s EXCEPT !.stack[0] = Mat4_Identity, !.top = 0]

MatStack_Top(s) == s.stack[s.top]

MatStack_Overflows(s) == s.top + 1 >= MATRIX_STACK_DEPTH

\* MatStack_Push with the overflow test off by one: s->top >= MATRIX_STACK_DEPTH
MatStack_Push_OffByOne(s) ==
    IF s.top >= MATRIX_STACK_DEPTH
    THEN s
    ELSE [s EXCEPT !.stack[s.top + 1] = s.stack[s.top], !.top = s.top + 1]

MatStack_Push(s) ==
    IF MatStack_Overflows(s)
    THEN s
    ELSE [s EXCEPT !.stack[s.top + 1] = s.stack[s.top], !.top = s.top + 1]

MatStack_Underflows(s) == s.top <= 0

\* MatStack_Pop with the underflow test off by one: s->top < 0
MatStack_Pop_OffByOne(s) ==
    IF s.top < 0
    THEN s
    ELSE [s EXCEPT !.top = s.top - 1]

MatStack_Pop(s) ==
    IF MatStack_Underflows(s)
    THEN s
    ELSE [s EXCEPT !.top = s.top - 1]

\* the stack a MatrixStack pointer points to
Deref(p) ==
    CASE p = "gMatMV" -> gMatMV
      [] p = "gMatProj" -> gMatProj
      [] p = "gMatTex" -> gMatTex

\* *p = s, for a non-null MatrixStack pointer p
StoreStack(p, s) ==
    /\ gMatMV' = IF p = "gMatMV" THEN s ELSE gMatMV
    /\ gMatProj' = IF p = "gMatProj" THEN s ELSE gMatProj
    /\ gMatTex' = IF p = "gMatTex" THEN s ELSE gMatTex

\* StoreTop writing the bottom slot: p->stack[0] = m
StoreTop_Bottom(p, m) == StoreStack(p, [Deref(p) EXCEPT !.stack[0] = m])

\* *MatStack_Top(p) = m
StoreTop(p, m) == StoreStack(p, [Deref(p) EXCEPT !.stack[Deref(p).top] = m])

\* ------------------------------------------------------------------------
\* Entry and exit of an entry point
\* ------------------------------------------------------------------------

\* the caller makes the call c
Enter(c) ==
    /\ ~crashed
    /\ budget > 0
    /\ budget' = budget - 1
    /\ lastCall' = c
    /\ prevCall' = lastCall[1]

\* a write through the null gCurrentStack: the process receives SIGSEGV
NullDeref ==
    /\ crashed' = TRUE
    /\ out' = <<>>
    /\ UNCHANGED <<matVars, nonMatVars>>

\* ------------------------------------------------------------------------
\* Matrix entry points
\* ------------------------------------------------------------------------

\* bridge_MatrixMode leaving the active stack as it is for an unknown mode
bridge_MatrixMode_KeepStack(mode) ==
    /\ Enter(<<"bridge_MatrixMode", mode>>)
    /\ gCurrentMode' = mode
    /\ gCurrentStack' = CASE mode = GL_MODELVIEW -> "gMatMV"
                          [] mode = GL_PROJECTION -> "gMatProj"
                          [] mode = GL_TEXTURE -> "gMatTex"
                          [] OTHER -> gCurrentStack
    /\ out' = IF mode \in {GL_MODELVIEW, GL_PROJECTION, GL_TEXTURE}
              THEN <<>>
              ELSE << <<"LOGW", "bridge_MatrixMode: unknown mode">> >>
    /\ UNCHANGED <<gMatMV, gMatProj, gMatTex, crashed, nonMatVars>>

bridge_MatrixMode(mode) ==
    /\ Enter(<<"bridge_MatrixMode", mode>>)
    /\ gCurrentMode' = mode
    /\ gCurrentStack' = CASE mode = GL_MODELVIEW -> "gMatMV"
                          [] mode = GL_PROJECTION -> "gMatProj"
                          [] mode = GL_TEXTURE -> "gMatTex"
                          [] OTHER -> "gMatMV"
    /\ out' = IF mode \in {GL_MODELVIEW, GL_PROJECTION, GL_TEXTURE}
              THEN <<>>
              ELSE << <<"LOGW", "bridge_MatrixMode: unknown mode">> >>
    /\ UNCHANGED <<gMatMV, gMatProj, gMatTex, crashed, nonMatVars>>

\* SetActiveTop writing the model-view stack whatever the matrix mode
SetActiveTop_ModelView(m) ==
    IF gCurrentStack = "NULL"
    THEN NullDeref
    ELSE /\ StoreTop("gMatMV", m)
         /\ out' = <<>>
         /\ UNCHANGED <<gCurrentStack, gCurrentMode, crashed, nonMatVars>>

\* an entry point that replaces the top of the active stack by m
SetActiveTop(m) ==
    IF gCurrentStack = "NULL"
    THEN NullDeref
    ELSE /\ StoreTop(gCurrentStack, m)
         /\ out' = <<>>
         /\ UNCHANGED <<gCurrentStack, gCurrentMode, crashed, nonMatVars>>

\* the product bridge_MultMatrixf stores: top * m
MultTop(m) == Mat4_Multiply(MatStack_Top(Deref(gCurrentStack)), m)

\* an entry point that ends in bridge_MultMatrixf(m)
MultActiveTop(m) ==
    IF gCurrentStack = "NULL"
    THEN NullDeref
    ELSE SetActiveTop(MultTop(m))

bridge_LoadIdentity ==
    /\ Enter(<<"bridge_LoadIdentity">>)
    /\ SetActiveTop(Mat4_Identity)

bridge_LoadMatrixf(m) ==
    /\ Enter(<<"bridge_LoadMatrixf", m>>)
    /\ SetActiveTop(m)

bridge_MultMatrixf(m) ==
    /\ Enter(<<"bridge_MultMatrixf", m>>)
    /\ MultActiveTop(m)

bridge_PushMatrix ==
    /\ Enter(<<"bridge_PushMatrix">>)
    /\ IF gCurrentStack = "NULL"
       THEN NullDeref
       ELSE /\ StoreStack(gCurrentStack, MatStack_Push(Deref(gCurrentStack)))
            /\ out' = IF MatStack_Overflows(Deref(gCurrentStack))
                      THEN << <<"LOGE", "Matrix stack overflow">> >>
                      ELSE <<>>
            /\ UNCHANGED <<gCurrentStack, gCurrentMode, crashed, nonMatVars>>

bridge_PopMatrix ==
    /\ Enter(<<"bridge_PopMatrix">>)
    /\ IF gCurrentStack = "NULL"
       THEN NullDeref
       ELSE /\ StoreStack(gCurrentStack, MatStack_Pop(Deref(gCurrentStack)))
            /\ out' = IF MatStack_Underflows(Deref(gCurrentStack))
                      THEN << <<"LOGE", "Matrix stack underflow">> >>
                      ELSE <<>>
            /\ UNCHANGED <<gCurrentStack, gCurrentMode, crashed, nonMatVars>>

\* TranslateMatrix with the offsets in the fourth row instead of the fourth column
TranslateMatrix_Transposed(x, y, z) == [Mat4_Identity EXCEPT ![3] = x, ![7] = y, ![11] = z]

TranslateMatrix(x, y, z) == [Mat4_Identity EXCEPT ![12] = x, ![13] = y, ![14] = z]

bridge_Translatef(x, y, z) ==
    /\ Enter(<<"bridge_Translatef", x, y, z>>)
    /\ MultActiveTop(TranslateMatrix(x, y, z))

RotateMatrix(angle, ax, ay, az) ==
    LET c == Cosf(angle)
        s == Sinf(angle)
        len == Sqrtf(ax * ax + ay * ay + az * az)
        x == IF len > 0 THEN FDiv(ax, len) ELSE ax
        y == IF len > 0 THEN FDiv(ay, len) ELSE ay
        z == IF len > 0 THEN FDiv(az, len) ELSE az
    IN  [i \in 0..15 |->
            CASE i = 0 -> x * x * (1 - c) + c
              [] i = 1 -> y * x * (1 - c) + z * s
              [] i = 2 -> z * x * (1 - c) - y * s
              [] i = 4 -> x * y * (1 - c) - z * s
              [] i = 5 -> y * y * (1 - c) + c
              [] i = 6 -> z * y * (1 - c) + x * s
              [] i = 8 -> x * z * (1 - c) + y * s
              [] i = 9 -> y * z * (1 - c) - x * s
              [] i = 10 -> z * z * (1 - c) + c
              [] i = 15 -> 1
              [] OTHER -> 0]

bridge_Rotatef(angle, x, y, z) ==
    /\ Enter(<<"bridge_Rotatef", angle, x, y, z>>)
    /\ MultActiveTop(RotateMatrix(angle, x, y, z))

ScaleMatrix(x, y, z) == [Mat4_Identity EXCEPT ![0] = x, ![5] = y, ![10] = z]

bridge_Scalef(x, y, z) ==
    /\ Enter(<<"bridge_Scalef", x, y, z>>)
    /\ MultActiveTop(ScaleMatrix(x, y, z))

\* OrthoMatrix without the negation of the depth scale
OrthoMatrix_NoFlip(l, r, b, t, n, f) ==
    [Mat4_Identity EXCEPT ![0] = FDiv(2, r - l),
                          ![5] = FDiv(2, t - b),
                          ![10] = FDiv(2, f - n),
                          ![12] = FDiv(0 - (r + l), r - l),
                          ![13] = FDiv(0 - (t + b), t - b),
                          ![14] = FDiv(0 - (f + n), f - n)]

OrthoMatrix(l, r, b, t, n, f) ==
    [Mat4_Identity EXCEPT ![0] = FDiv(2, r - l),
                          ![5] = FDiv(2, t - b),
                          ![10] = FDiv(-2, f - n),
                          ![12] = FDiv(0 - (r + l), r - l),
                          ![13] = FDiv(0 - (t + b), t - b),
                          ![14] = FDiv(0 - (f + n), f - n)]

bridge_Ortho(l, r, b, t, n, f) ==
    /\ Enter(<<"bridge_Ortho", l, r, b, t, n, f>>)
    /\ MultActiveTop(OrthoMatrix(l, r, b, t, n, f))

FrustumMatrix(l, r, b, t, n, f) ==
    [Mat4_Zero EXCEPT ![0] = FDiv(2 * n, r - l),
                      ![5] = FDiv(2 * n, t - b),
                      ![8] = FDiv(r + l, r - l),
                      ![9] = FDiv(t + b, t - b),
                      ![10] = FDiv(0 - (f + n), f - n),
                      ![11] = -1,
                      ![14] = FDiv(0 - 2 * f * n, f - n)]

bridge_Frustum(l, r, b, t, n, f) ==
    /\ Enter(<<"bridge_Frustum", l, r, b, t, n, f>>)
    /\ MultActiveTop(FrustumMatrix(l, r, b, t, n, f))

GL_MODELVIEW_MATRIX == 2982
GL_PROJECTION_MATRIX == 2983

\* bridge_GetFloatv copying the top of the active stack whatever pname asks for
GetFloatv_Copy_Active(pname) ==
    IF gCurrentStack = "NULL" THEN Mat4_Zero ELSE MatStack_Top(Deref(gCurrentStack))

\* the 16 floats bridge_GetFloatv copies for a matrix pname
GetFloatv_Copy(pname) ==
    CASE pname = GL_MODELVIEW_MATRIX -> MatStack_Top(gMatMV)
      [] pname = GL_PROJECTION_MATRIX -> MatStack_Top(gMatProj)

\* what glGetFloatv of the OpenGL ES driver may leave in params: nothing for
\* a pname it does not know, one float for a scalar query
glGetFloatv(pname) == {callerParams, [callerParams EXCEPT ![0] = 1]}

bridge_GetFloatv(pname) ==
    /\ Enter(<<"bridge_GetFloatv", pname>>)
    /\ IF pname \in {GL_MODELVIEW_MATRIX, GL_PROJECTION_MATRIX}
       THEN /\ callerParams' = GetFloatv_Copy(pname)
            /\ out' = <<>>
       ELSE /\ callerParams' \in glGetFloatv(pname)
            /\ out' = << <<"glGetFloatv", pname>> >>
    /\ UNCHANGED <<legacyVars, gpuVars, scratchVars, crashed>>

\* the caller stores v in element i of the buffer it handed to glGetFloatv
caller_store(i, v) ==
    /\ Enter(<<"caller_store", i, v>>)
    /\ callerParams' = [callerParams EXCEPT ![i] = v]
    /\ out' = <<>>
    /\ UNCHANGED <<legacyVars, gpuVars, scratchVars, crashed>>

\* ------------------------------------------------------------------------
\* Static initial values of the globals
\* ------------------------------------------------------------------------

Vec4_Zero == <<0, 0, 0, 0>>

LightState_Static ==
    [position |-> Vec4_Zero, ambient |-> Vec4_Zero, diffuse |-> Vec4_Zero,
     specular |-> Vec4_Zero, enabled |-> FALSE]

FogState_Static ==
    [color |-> <<0, 0, 0, 100>>, start |-> 0, end |-> 100, density |-> 100,
     mode |-> GL_LINEAR, enabled |-> FALSE]

AlphaTest_Static == [func |-> GL_ALWAYS, ref |-> 0, enabled |-> FALSE]

ClientArray_Static(size) ==
    [enabled |-> FALSE, size |-> size, type |-> "GL_FLOAT", stride |-> 0, pointer |-> 0]

\* the uniform values of a freshly linked program: all zero
Uniforms_Default ==
    [u_mvMatrix |-> Mat4_Zero, u_projMatrix |-> Mat4_Zero, u_texMatrix |-> Mat4_Zero,
     u_normalMatrix |-> [i \in 0..8 |-> 0],
     u_lightingEnabled |-> 0, u_colorMaterial |-> 0, u_globalAmbient |-> Vec4_Zero,
     u_lightEnabled |-> [i \in 0..(MAX_LIGHTS - 1) |-> 0],
     u_lightPos |-> [i \in 0..(MAX_LIGHTS - 1) |-> Vec4_Zero],
     u_lightAmbient |-> [i \in 0..(MAX_LIGHTS - 1) |-> Vec4_Zero],
     u_lightDiffuse |-> [i \in 0..(MAX_LIGHTS - 1) |-> Vec4_Zero],
     u_fogEnabled |-> 0, u_fogColor |-> Vec4_Zero, u_fogStart |-> 0, u_fogEnd |-> 0,
     u_alphaTestEnabled |-> 0, u_alphaRef |-> 0, u_alphaFunc |-> 0,
     u_textureEnabled |-> 0, u_texture |-> 0, u_currentColor |-> Vec4_Zero,
     u_hasVertexColors |-> 0]

\* the state of the process when main starts: the static initialisers
StaticInit ==
    /\ gMatMV = MatrixStack_Static
    /\ gMatProj = MatrixStack_Static
    /\ gMatTex = MatrixStack_Static
    /\ gCurrentStack = "NULL"
    /\ gCurrentMode = 0
    /\ gLights = [i \in 0..(MAX_LIGHTS - 1) |-> LightState_Static]
    /\ gGlobalAmbient = <<20, 20, 20, 100>>
    /\ gFog = FogState_Static
    /\ gAlphaTest = AlphaTest_Static
    /\ gLightingEnabled = FALSE
    /\ gColorMaterialEnabled = FALSE
    /\ gNormalizeEnabled = FALSE
    /\ gTexture2DEnabled = FALSE
    /\ gCurrentColor = <<100, 100, 100, 100>>
    /\ gVertexArray = ClientArray_Static(4)
    /\ gNormalArray = ClientArray_Static(3)
    /\ gColorArray = ClientArray_Static(4)
    /\ gTexCoordArray = ClientArray_Static(2)
    /\ gImmVerts = <<>>
    /\ gImmVertCount = 0
    /\ gImmMode = 0
    /\ gImmCurrentNormal = <<0, 0, 1>>
    /\ gImmCurrentTexCoord = <<0, 0>>
    /\ gShaderProgram = 0
    /\ gStreamVBO = 0
    /\ gStreamIBO = 0
    /\ gVAO = 0
    /\ uniforms = Uniforms_Default
    /\ uploadBuf = [buf |-> "NULL", bufCapacity |-> 0]
    /\ endBuf = [buf |-> "NULL", bufCap |-> 0]
    /\ crashed = FALSE
    /\ lastCall = <<"main">>
    /\ prevCall = "main"
    /\ out = <<>>
    /\ saved = [p \in {"gMatMV", "gMatProj", "gMatTex"} |-> <<>>]

\* ------------------------------------------------------------------------
\* Init / Shutdown
\* ------------------------------------------------------------------------

BoolToInt(b) == IF b THEN 1 ELSE 0

Mat4_NormalMatrix(mv) == [i \in 0..8 |-> mv[(i \div 3) * 4 + (i % 3)]]

\* the lights as the full path of GLESBridge_Init leaves them
InitLights ==
    [i \in 0..(MAX_LIGHTS - 1) |->
        [gLights[i] EXCEPT !.enabled = FALSE,
                           !.ambient = <<0, 0, 0, 100>>,
                           !.diffuse = IF i = 0 THEN <<100, 100, 100, 100>> ELSE <<0, 0, 0, 100>>,
                           !.position = <<0, 0, 1, 0>>]]

\* the uniforms GLESBridge_Init uploads to the program it has just linked
InitUniforms ==
    [Uniforms_Default EXCEPT !.u_texture = 0,
                             !.u_mvMatrix = Mat4_Identity,
                             !.u_projMatrix = Mat4_Identity,
                             !.u_texMatrix = Mat4_Identity,
                             !.u_normalMatrix = Mat4_NormalMatrix(Mat4_Identity)]

\* CompileShader twice and LinkProgram: what the driver is asked, and the log
BuildOut(vsOK, fsOK, linkOK) ==
    << <<"glCompileShader", "GL_VERTEX_SHADER">> >>
    \o (IF vsOK THEN <<>> ELSE << <<"LOGE", "Shader compile error">> >>)
    \o << <<"glCompileShader", "GL_FRAGMENT_SHADER">> >>
    \o (IF fsOK THEN <<>> ELSE << <<"LOGE", "Shader compile error">> >>)
    \o << <<"glLinkProgram">> >>
    \o (IF vsOK /\ fsOK /\ linkOK THEN <<>> ELSE << <<"LOGE", "Program link error">> >>)

\* vsOK, fsOK, linkOK: whether the driver compiles each shader and links the
\* program (a program lacking a compiled shader never links)
GLESBridge_Init(vsOK, fsOK, linkOK) ==
    /\ Enter(<<"GLESBridge_Init">>)
    /\ gMatMV' = MatStack_Init(gMatMV)
    /\ gMatProj' = MatStack_Init(gMatProj)
    /\ gMatTex' = MatStack_Init(gMatTex)
    /\ gCurrentStack' = "gMatMV"
    /\ gCurrentMode' = GL_MODELVIEW
    /\ IF gShaderProgram # 0
       THEN /\ out' = <<>>
            /\ UNCHANGED <<gLights, objVars, uniforms>>
       ELSE /\ gLights' = InitLights
            /\ IF vsOK /\ fsOK /\ linkOK
               THEN /\ gShaderProgram' = 1
                    /\ gStreamVBO' = 1
                    /\ gStreamIBO' = 2
                    /\ gVAO' = 1
                    /\ uniforms' = InitUniforms
                    /\ out' = BuildOut(vsOK, fsOK, linkOK)
                              \o << <<"glGenBuffers">>, <<"glGenBuffers">>,
                                    <<"glGenVertexArrays">>,
                                    <<"LOGI", "GLESBridge_Init: OK">> >>
               ELSE /\ gShaderProgram' = 0
                    /\ out' = BuildOut(vsOK, fsOK, linkOK)
                              \o << <<"LOGE", "GLESBridge_Init: shader compilation failed">> >>
                    /\ UNCHANGED <<gStreamVBO, gStreamIBO, gVAO, uniforms>>
    /\ UNCHANGED <<gGlobalAmbient, stateVars, arrayVars, immVars, scratchVars, crashed>>

\* GLESBridge_Shutdown deleting the program without clearing gShaderProgram
GLESBridge_Shutdown_KeepsProgram ==
    /\ Enter(<<"GLESBridge_Shutdown">>)
    /\ gShaderProgram' = gShaderProgram
    /\ gStreamVBO' = 0
    /\ gStreamIBO' = 0
    /\ gVAO' = 0
    /\ out' = (IF gShaderProgram # 0 THEN << <<"glDeleteProgram", gShaderProgram>> >> ELSE <<>>)
              \o (IF gStreamVBO # 0 THEN << <<"glDeleteBuffers", gStreamVBO>> >> ELSE <<>>)
              \o (IF gStreamIBO # 0 THEN << <<"glDeleteBuffers", gStreamIBO>> >> ELSE <<>>)
              \o (IF gVAO # 0 THEN << <<"glDeleteVertexArrays", gVAO>> >> ELSE <<>>)
    /\ UNCHANGED <<legacyVars, uniforms, scratchVars, crashed>>

GLESBridge_Shutdown ==
    /\ Enter(<<"GLESBridge_Shutdown">>)
    /\ gShaderProgram' = 0
    /\ gStreamVBO' = 0
    /\ gStreamIBO' = 0
    /\ gVAO' = 0
    /\ out' = (IF gShaderProgram # 0 THEN << <<"glDeleteProgram", gShaderProgram>> >> ELSE <<>>)
              \o (IF gStreamVBO # 0 THEN << <<"glDeleteBuffers", gStreamVBO>> >> ELSE <<>>)
              \o (IF gStreamIBO # 0 THEN << <<"glDeleteBuffers", gStreamIBO>> >> ELSE <<>>)
              \o (IF gVAO # 0 THEN << <<"glDeleteVertexArrays", gVAO>> >> ELSE <<>>)
    /\ UNCHANGED <<legacyVars, uniforms, scratchVars, crashed>>

\* ------------------------------------------------------------------------
\* Lighting
\* ------------------------------------------------------------------------

\* bridge_Lightfv taking the nearest light for a token out of range
bridge_Lightfv_Clamped(light, pname, params) ==
    /\ Enter(<<"bridge_Lightfv", light, pname, params>>)
    /\ LET d == light - GL_LIGHT0
           i == IF d < 0 THEN 0 ELSE IF d >= MAX_LIGHTS THEN MAX_LIGHTS - 1 ELSE d
       IN  gLights' =
             CASE pname = GL_AMBIENT -> [gLights EXCEPT ![i].ambient = params]
               [] pname = GL_DIFFUSE -> [gLights EXCEPT ![i].diffuse = params]
               [] pname = GL_SPECULAR -> [gLights EXCEPT ![i].specular = params]
               [] pname = GL_POSITION -> [gLights EXCEPT ![i].position = params]
               [] OTHER -> gLights
    /\ out' = <<>>
    /\ UNCHANGED <<matVars, gGlobalAmbient, stateVars, arrayVars, immVars, gpuVars,
                   scratchVars, crashed>>

bridge_Lightfv(light, pname, params) ==
    /\ Enter(<<"bridge_Lightfv", light, pname, params>>)
    /\ LET i == light - GL_LIGHT0
       IN  gLights' =
             IF i < 0 \/ i >= MAX_LIGHTS
             THEN gLights
             ELSE CASE pname = GL_AMBIENT -> [gLights EXCEPT ![i].ambient = params]
                    [] pname = GL_DIFFUSE -> [gLights EXCEPT ![i].diffuse = params]
                    [] pname = GL_SPECULAR -> [gLights EXCEPT ![i].specular = params]
                    [] pname = GL_POSITION -> [gLights EXCEPT ![i].position = params]
                    [] OTHER -> gLights
    /\ out' = <<>>
    /\ UNCHANGED <<matVars, gGlobalAmbient, stateVars, arrayVars, immVars, gpuVars,
                   scratchVars, crashed>>

bridge_LightModelfv(pname, params) ==
    /\ Enter(<<"bridge_LightModelfv", pname, params>>)
    /\ gGlobalAmbient' = IF pname = GL_LIGHT_MODEL_AMBIENT THEN params ELSE gGlobalAmbient
    /\ out' = <<>>
    /\ UNCHANGED <<matVars, gLights, stateVars, arrayVars, immVars, gpuVars,
                   scratchVars, crashed>>

\* ------------------------------------------------------------------------
\* Fog
\* ------------------------------------------------------------------------

Fogf(fog, pname, param) ==
    CASE pname = GL_FOG_START -> [fog EXCEPT !.start = param]
      [] pname = GL_FOG_END -> [fog EXCEPT !.end = param]
      [] pname = GL_FOG_DENSITY -> [fog EXCEPT !.density = param]
      [] OTHER -> fog

\* an entry point that writes only gFog
SetFog(fog) ==
    /\ gFog' = fog
    /\ out' = <<>>
    /\ UNCHANGED <<matVars, lightVars, gAlphaTest, gLightingEnabled, gColorMaterialEnabled,
                   gNormalizeEnabled, gTexture2DEnabled, gCurrentColor, arrayVars, immVars,
                   gpuVars, scratchVars, crashed>>

bridge_Fogf(pname, param) ==
    /\ Enter(<<"bridge_Fogf", pname, param>>)
    /\ SetFog(Fogf(gFog, pname, param))

bridge_Fogfv(pname, params) ==
    /\ Enter(<<"bridge_Fogfv", pname, params>>)
    /\ SetFog(IF pname = GL_FOG_COLOR
              THEN [gFog EXCEPT !.color = params]
              ELSE Fogf(gFog, pname, params[1]))

bridge_Fogi(pname, param) ==
    /\ Enter(<<"bridge_Fogi", pname, param>>)
    /\ SetFog(IF pname = GL_FOG_MODE
              THEN [gFog EXCEPT !.mode = param]
              ELSE Fogf(gFog, pname, param))

\* ------------------------------------------------------------------------
\* Alpha test
\* ------------------------------------------------------------------------

bridge_AlphaFunc(func, ref) ==
    /\ Enter(<<"bridge_AlphaFunc", func, ref>>)
    /\ gAlphaTest' = [gAlphaTest EXCEPT !.func = func, !.ref = ref]
    /\ out' = <<>>
    /\ UNCHANGED <<matVars, lightVars, gFog, gLightingEnabled, gColorMaterialEnabled,
                   gNormalizeEnabled, gTexture2DEnabled, gCurrentColor, arrayVars, immVars,
                   gpuVars, scratchVars, crashed>>

\* ------------------------------------------------------------------------
\* State (Enable/Disable)
\* ------------------------------------------------------------------------

\* the body shared by bridge_Enable (on = TRUE) and bridge_Disable (on = FALSE)
SetCap(cap, on) ==
    /\ gLights' = IF cap >= GL_LIGHT0 /\ cap <= GL_LIGHT0 + 7
                  THEN [gLights EXCEPT ![cap - GL_LIGHT0].enabled = on]
                  ELSE gLights
    /\ gLightingEnabled' = IF cap = GL_LIGHTING THEN on ELSE gLightingEnabled
    /\ gColorMaterialEnabled' = IF cap = GL_COLOR_MATERIAL THEN on ELSE gColorMaterialEnabled
    /\ gNormalizeEnabled' = IF cap = GL_NORMALIZE THEN on ELSE gNormalizeEnabled
    /\ gAlphaTest' = IF cap = GL_ALPHA_TEST THEN [gAlphaTest EXCEPT !.enabled = on] ELSE gAlphaTest
    /\ gFog' = IF cap = GL_FOG THEN [gFog EXCEPT !.enabled = on] ELSE gFog
    /\ gTexture2DEnabled' = IF cap = GL_TEXTURE_2D THEN on ELSE gTexture2DEnabled
    /\ out' = IF \/ (cap >= GL_LIGHT0 /\ cap <= GL_LIGHT0 + 7)
                 \/ cap \in {GL_LIGHTING, GL_COLOR_MATERIAL, GL_NORMALIZE, GL_ALPHA_TEST,
                             GL_FOG, GL_TEXTURE_2D}
              THEN <<>>
              ELSE << <<IF on THEN "glEnable" ELSE "glDisable", cap>> >>
    /\ UNCHANGED <<matVars, gGlobalAmbient, gCurrentColor, arrayVars, immVars, gpuVars,
                   scratchVars, crashed>>

bridge_Enable(cap) ==
    /\ Enter(<<"bridge_Enable", cap>>)
    /\ SetCap(cap, TRUE)

bridge_Disable(cap) ==
    /\ Enter(<<"bridge_Disable", cap>>)
    /\ SetCap(cap, FALSE)

\* glIsEnabled of the driver for a capability of the legacy pipeline that the
\* shim never passes on and OpenGL ES does not define: GL_FALSE (the driver
\* records GL_INVALID_ENUM).  For a capability the shim passes through the
\* driver answers from its own state, which is not held here.
glIsEnabled(cap) == FALSE

\* the value bridge_IsEnabled returns
IsEnabled_Value(cap) ==
    IF cap >= GL_LIGHT0 /\ cap <= GL_LIGHT0 + 7
    THEN gLights[cap - GL_LIGHT0].enabled
    ELSE CASE cap = GL_LIGHTING -> gLightingEnabled
           [] cap = GL_COLOR_MATERIAL -> gColorMaterialEnabled
           [] cap = GL_ALPHA_TEST -> gAlphaTest.enabled
           [] cap = GL_FOG -> gFog.enabled
           [] cap = GL_TEXTURE_2D -> gTexture2DEnabled
           [] OTHER -> glIsEnabled(cap)

bridge_IsEnabled(cap) ==
    /\ Enter(<<"bridge_IsEnabled", cap>>)
    /\ out' = (IF \/ (cap >= GL_LIGHT0 /\ cap <= GL_LIGHT0 + 7)
                  \/ cap \in {GL_LIGHTING, GL_COLOR_MATERIAL, GL_ALPHA_TEST, GL_FOG, GL_TEXTURE_2D}
               THEN <<>>
               ELSE << <<"glIsEnabled", cap>> >>)
              \o << <<"return", IsEnabled_Value(cap)>> >>
    /\ UNCHANGED <<legacyVars, gpuVars, scratchVars, crashed>>

\* ------------------------------------------------------------------------
\* Client state
\* ------------------------------------------------------------------------

\* the body shared by bridge_EnableClientState and bridge_DisableClientState
SetClientState(array, on) ==
    /\ gVertexArray' = IF array = GL_VERTEX_ARRAY THEN [gVertexArray EXCEPT !.enabled = on] ELSE gVertexArray
    /\ gNormalArray' = IF array = GL_NORMAL_ARRAY THEN [gNormalArray EXCEPT !.enabled = on] ELSE gNormalArray
    /\ gColorArray' = IF array = GL_COLOR_ARRAY THEN [gColorArray EXCEPT !.enabled = on] ELSE gColorArray
    /\ gTexCoordArray' = IF array = GL_TEXTURE_COORD_ARRAY THEN [gTexCoordArray EXCEPT !.enabled = on] ELSE gTexCoordArray
    /\ out' = <<>>
    /\ UNCHANGED <<matVars, lightVars, stateVars, immVars, gpuVars, scratchVars, crashed>>

bridge_EnableClientState(array) ==
    /\ Enter(<<"bridge_EnableClientState", array>>)
    /\ SetClientState(array, TRUE)

bridge_DisableClientState(array) ==
    /\ Enter(<<"bridge_DisableClientState", array>>)
    /\ SetClientState(array, FALSE)

\* SetPointer enabling the array it describes
SetPointer_Enabling(a, size, type, stride, pointer) ==
    [a EXCEPT !.size = size, !.type = type, !.stride = stride, !.pointer = pointer,
              !.enabled = TRUE]

\* the descriptor a gl*Pointer call leaves
SetPointer(a, size, type, stride, pointer) ==
    [a EXCEPT !.size = size, !.type = type, !.stride = stride, !.pointer = pointer]

bridge_VertexPointer(size, type, stride, pointer) ==
    /\ Enter(<<"bridge_VertexPointer", size, type, stride, pointer>>)
    /\ gVertexArray' = SetPointer(gVertexArray, size, type, stride, pointer)
    /\ out' = <<>>
    /\ UNCHANGED <<matVars, lightVars, stateVars, gNormalArray, gColorArray, gTexCoordArray,
                   immVars, gpuVars, scratchVars, crashed>>

bridge_NormalPointer(type, stride, pointer) ==
    /\ Enter(<<"bridge_NormalPointer", type, stride, pointer>>)
    /\ gNormalArray' = SetPointer(gNormalArray, 3, type, stride, pointer)
    /\ out' = <<>>
    /\ UNCHANGED <<matVars, lightVars, stateVars, gVertexArray, gColorArray, gTexCoordArray,
                   immVars, gpuVars, scratchVars, crashed>>

bridge_TexCoordPointer(size, type, stride, pointer) ==
    /\ Enter(<<"bridge_TexCoordPointer", size, type, stride, pointer>>)
    /\ gTexCoordArray' = SetPointer(gTexCoordArray, size, type, stride, pointer)
    /\ out' = <<>>
    /\ UNCHANGED <<matVars, lightVars, stateVars, gVertexArray, gNormalArray, gColorArray,
                   immVars, gpuVars, scratchVars, crashed>>

bridge_ColorPointer(size, type, stride, pointer) ==
    /\ Enter(<<"bridge_ColorPointer", size, type, stride, pointer>>)
    /\ gColorArray' = SetPointer(gColorArray, size, type, stride, pointer)
    /\ out' = <<>>
    /\ UNCHANGED <<matVars, lightVars, stateVars, gVertexArray, gNormalArray, gTexCoordArray,
                   immVars, gpuVars, scratchVars, crashed>>

\* ------------------------------------------------------------------------
\* Current color
\* ------------------------------------------------------------------------

\* bridge_Color4f uploading the color to the shader at once
bridge_Color4f_Eager(r, g, b, a) ==
    /\ Enter(<<"bridge_Color4f", r, g, b, a>>)
    /\ gCurrentColor' = <<r, g, b, a>>
    /\ uniforms' = [uniforms EXCEPT !.u_currentColor = <<r, g, b, a>>]
    /\ out' = <<>>
    /\ UNCHANGED <<matVars, lightVars, gFog, gAlphaTest, gLightingEnabled,
                   gColorMaterialEnabled, gNormalizeEnabled, gTexture2DEnabled, arrayVars,
                   immVars, objVars, scratchVars, crashed>>

bridge_Color4f(r, g, b, a) ==
    /\ Enter(<<"bridge_Color4f", r, g, b, a>>)
    /\ gCurrentColor' = <<r, g, b, a>>
    /\ out' = <<>>
    /\ UNCHANGED <<matVars, lightVars, gFog, gAlphaTest, gLightingEnabled,
                   gColorMaterialEnabled, gNormalizeEnabled, gTexture2DEnabled, arrayVars,
                   immVars, gpuVars, scratchVars, crashed>>

\* ------------------------------------------------------------------------
\* Flush state to shader uniforms
\* ------------------------------------------------------------------------

\* FlushedUniforms without the upload of gCurrentColor to u_currentColor
FlushedUniforms_NoColor(u) ==
    [u EXCEPT !.u_mvMatrix = MatStack_Top(gMatMV),
              !.u_projMatrix = MatStack_Top(gMatProj),
              !.u_texMatrix = MatStack_Top(gMatTex),
              !.u_normalMatrix = Mat4_NormalMatrix(MatStack_Top(gMatMV)),
              !.u_lightingEnabled = BoolToInt(gLightingEnabled),
              !.u_colorMaterial = BoolToInt(gColorMaterialEnabled),
              !.u_globalAmbient = gGlobalAmbient,
              !.u_lightEnabled = [i \in 0..(MAX_LIGHTS - 1) |-> BoolToInt(gLights[i].enabled)],
              !.u_lightPos = [i \in 0..(MAX_LIGHTS - 1) |-> gLights[i].position],
              !.u_lightAmbient = [i \in 0..(MAX_LIGHTS - 1) |-> gLights[i].ambient],
              !.u_lightDiffuse = [i \in 0..(MAX_LIGHTS - 1) |-> gLights[i].diffuse],
              !.u_fogEnabled = BoolToInt(gFog.enabled),
              !.u_alphaTestEnabled = BoolToInt(gAlphaTest.enabled),
              !.u_textureEnabled = BoolToInt(gTexture2DEnabled)]

\* a flush that adds the current color to the uploaded one instead of copying it
FlushedUniforms_Accumulate(u) ==
    [FlushedUniforms_NoColor(u) EXCEPT
        !.u_currentColor = <<@[1] + gCurrentColor[1], @[2] + gCurrentColor[2],
                             @[3] + gCurrentColor[3], @[4] + gCurrentColor[4]>>]

\* FlushedUniforms uploading the fog and alpha-test values whether or not the
\* feature is enabled
FlushedUniforms_Unconditional(u) ==
    [u EXCEPT !.u_mvMatrix = MatStack_Top(gMatMV),
              !.u_projMatrix = MatStack_Top(gMatProj),
              !.u_texMatrix = MatStack_Top(gMatTex),
              !.u_normalMatrix = Mat4_NormalMatrix(MatStack_Top(gMatMV)),
              !.u_lightingEnabled = BoolToInt(gLightingEnabled),
              !.u_colorMaterial = BoolToInt(gColorMaterialEnabled),
              !.u_globalAmbient = gGlobalAmbient,
              !.u_lightEnabled = [i \in 0..(MAX_LIGHTS - 1) |-> BoolToInt(gLights[i].enabled)],
              !.u_lightPos = [i \in 0..(MAX_LIGHTS - 1) |-> gLights[i].position],
              !.u_lightAmbient = [i \in 0..(MAX_LIGHTS - 1) |-> gLights[i].ambient],
              !.u_lightDiffuse = [i \in 0..(MAX_LIGHTS - 1) |-> gLights[i].diffuse],
              !.u_fogEnabled = BoolToInt(gFog.enabled),
              !.u_fogColor = gFog.color,
              !.u_fogStart = gFog.start,
              !.u_fogEnd = gFog.end,
              !.u_alphaTestEnabled = BoolToInt(gAlphaTest.enabled),
              !.u_alphaRef = gAlphaTest.ref,
              !.u_alphaFunc = gAlphaTest.func,
              !.u_textureEnabled = BoolToInt(gTexture2DEnabled),
              !.u_currentColor = gCurrentColor]

\* the uniform values after the glUniform calls of bridge_FlushState, from u
FlushedUniforms(u) ==
    [u EXCEPT !.u_mvMatrix = MatStack_Top(gMatMV),
              !.u_projMatrix = MatStack_Top(gMatProj),
              !.u_texMatrix = MatStack_Top(gMatTex),
              !.u_normalMatrix = Mat4_NormalMatrix(MatStack_Top(gMatMV)),
              !.u_lightingEnabled = BoolToInt(gLightingEnabled),
              !.u_colorMaterial = BoolToInt(gColorMaterialEnabled),
              !.u_globalAmbient = gGlobalAmbient,
              !.u_lightEnabled = [i \in 0..(MAX_LIGHTS - 1) |-> BoolToInt(gLights[i].enabled)],
              !.u_lightPos = [i \in 0..(MAX_LIGHTS - 1) |-> gLights[i].position],
              !.u_lightAmbient = [i \in 0..(MAX_LIGHTS - 1) |-> gLights[i].ambient],
              !.u_lightDiffuse = [i \in 0..(MAX_LIGHTS - 1) |-> gLights[i].diffuse],
              !.u_fogEnabled = BoolToInt(gFog.enabled),
              !.u_fogColor = IF gFog.enabled THEN gFog.color ELSE @,
              !.u_fogStart = IF gFog.enabled THEN gFog.start ELSE @,
              !.u_fogEnd = IF gFog.enabled THEN gFog.end ELSE @,
              !.u_alphaTestEnabled = BoolToInt(gAlphaTest.enabled),
              !.u_alphaRef = IF gAlphaTest.enabled THEN gAlphaTest.ref ELSE @,
              !.u_alphaFunc = IF gAlphaTest.enabled THEN gAlphaTest.func ELSE @,
              !.u_textureEnabled = BoolToInt(gTexture2DEnabled),
              !.u_currentColor = gCurrentColor]

\* the driver commands bridge_FlushState issues besides the glUniform calls,
\* whose effect is the value of uniforms
FlushOut == << <<"glUseProgram", gShaderProgram>> >>

bridge_FlushState ==
    /\ Enter(<<"bridge_FlushState">>)
    /\ IF gShaderProgram = 0
       THEN /\ out' = <<>>
            /\ UNCHANGED uniforms
       ELSE /\ uniforms' = FlushedUniforms(uniforms)
            /\ out' = FlushOut
    /\ UNCHANGED <<legacyVars, objVars, scratchVars, crashed>>

bridge_Color4fv(v) ==
    /\ Enter(<<"bridge_Color4fv", v>>)
    /\ gCurrentColor' = <<v[1], v[2], v[3], v[4]>>
    /\ out' = <<>>
    /\ UNCHANGED <<matVars, lightVars, gFog, gAlphaTest, gLightingEnabled,
                   gColorMaterialEnabled, gNormalizeEnabled, gTexture2DEnabled, arrayVars,
                   immVars, gpuVars, scratchVars, crashed>>

\* ------------------------------------------------------------------------
\* Draw helpers
\* ------------------------------------------------------------------------

GLTypeSize(type) ==
    CASE type = "GL_FLOAT" -> 4
      [] type = "GL_UNSIGNED_SHORT" -> 2
      [] type = "GL_UNSIGNED_INT" -> 4
      [] type = "GL_UNSIGNED_BYTE" -> 1
      [] type = "GL_SHORT" -> 2
      [] type = "GL_INT" -> 4
      [] OTHER -> 4

\* bytes of one interleaved vertex: float3 pos, float3 normal, float2 tc, float4 color
kStride == (3 + 3 + 2 + 4) * 4

\* UploadClientArrays allocating a buffer of the needed size in every call
UploadClientArrays_buf_Exact(numVerts, mallocOK) ==
    [buf |-> IF mallocOK THEN "heap" ELSE "NULL", bufCapacity |-> numVerts * kStride]

\* the scratch buffer of UploadClientArrays after a call for numVerts vertices;
\* mallocOK: whether malloc returns memory, should the call need to grow the buffer
UploadClientArrays_buf(numVerts, mallocOK) ==
    IF numVerts * kStride > uploadBuf.bufCapacity
    THEN [buf |-> IF mallocOK THEN "heap" ELSE "NULL", bufCapacity |-> numVerts * kStride]
    ELSE uploadBuf

\* the caller's memory: the float stored at byte address addr.  Every float of
\* it differs from every other one (its value is its address).
CallerFloat(addr) == addr

\* n consecutive floats read at p, as const float *v = (const float *)p reads them
ReadFloats(p, n) == [j \in 1..n |-> CallerFloat(p + 4 * (j - 1))]

\* ns of UploadClientArrays and of bridge_DrawArrays
NormalStride(a) == IF a.stride # 0 THEN a.stride ELSE 3 * GLTypeSize(a.type)

\* the row stride of a channel; the size of a descriptor times the size of its type otherwise
EffectiveStride(a) == IF a.stride # 0 THEN a.stride ELSE a.size * GLTypeSize(a.type)

\* bridge_DrawArrays assembling from the first element whatever first is
OffsetPointer_NoOffset(pointer, first, stride) == pointer

\* the pointer bridge_DrawArrays gives a channel while it assembles
OffsetPointer(pointer, first, stride) ==
    IF first > 0 /\ pointer # 0 THEN pointer + first * stride ELSE pointer

\* the four channels as UploadClientArrays sees them in a draw that offsets the
\* pointers by first elements (0 in bridge_DrawElements): the pointer, the row
\* stride, whether the channel is read, and the floats read per vertex
Channels(first) ==
    [position |-> [p |-> OffsetPointer(gVertexArray.pointer, first, EffectiveStride(gVertexArray)),
                   stride |-> EffectiveStride(gVertexArray),
                   used |-> gVertexArray.pointer # 0,
                   floats |-> 3],
     normal |-> [p |-> OffsetPointer(gNormalArray.pointer, first, NormalStride(gNormalArray)),
                 stride |-> NormalStride(gNormalArray),
                 used |-> gNormalArray.pointer # 0 /\ gNormalArray.enabled,
                 floats |-> 3],
     texcoord |-> [p |-> OffsetPointer(gTexCoordArray.pointer, first, EffectiveStride(gTexCoordArray)),
                   stride |-> EffectiveStride(gTexCoordArray),
                   used |-> gTexCoordArray.pointer # 0 /\ gTexCoordArray.enabled,
                   floats |-> 2],
     color |-> [p |-> OffsetPointer(gColorArray.pointer, first, EffectiveStride(gColorArray)),
                stride |-> EffectiveStride(gColorArray),
                used |-> gColorArray.pointer # 0 /\ gColorArray.enabled,
                floats |-> 4]]

\* the loop of UploadClientArrays reading a channel whether it is set or not
ChannelValue_NoDefault(c, i, default) == ReadFloats(c.p + i * c.stride, c.floats)

\* what the loop of UploadClientArrays takes for vertex i from channel c, or
\* the default when it does not read the channel
ChannelValue(c, i, default) ==
    IF c.used THEN ReadFloats(c.p + i * c.stride, c.floats) ELSE default

\* the 12 floats UploadClientArrays writes for vertex i
AssembledVertex(i, first) ==
    LET ch == Channels(first)
        pos == ChannelValue(ch.position, i, <<0, 0, 0>>)
        nrm == ChannelValue(ch.normal, i, <<0, 0, 1>>)
        tc == ChannelValue(ch.texcoord, i, <<0, 0>>)
        col == ChannelValue(ch.color, i, gCurrentColor)
    IN  [x |-> pos[1], y |-> pos[2], z |-> pos[3],
         nx |-> nrm[1], ny |-> nrm[2], nz |-> nrm[3],
         u |-> tc[1], v |-> tc[2],
         r |-> col[1], g |-> col[2], b |-> col[3], a |-> col[4]]

ChannelNames == <<"position", "normal", "texcoord", "color">>

\* the reads of the caller's memory the loop makes, in order: for every vertex
\* and every channel it reads, the channel, the first byte and the byte count
AssemblerReads(numVerts, first) ==
    LET ch == Channels(first)
        all == [k \in 1..(4 * numVerts) |->
                  LET i == (k - 1) \div 4
                      name == ChannelNames[((k - 1) % 4) + 1]
                  IN  IF ch[name].used
                      THEN <<"read", name, ch[name].p + i * ch[name].stride, 4 * ch[name].floats>>
                      ELSE <<"none">>]
    IN  SelectSeq(all, LAMBDA e : e[1] = "read")

\* what UploadClientArrays does besides keeping its buffer: nothing when it has
\* no buffer, the reads and the upload of the assembled vertices otherwise
UploadClientArrays_out(numVerts, first, mallocOK) ==
    IF UploadClientArrays_buf(numVerts, mallocOK).buf = "NULL"
    THEN <<>>
    ELSE AssemblerReads(numVerts, first)
         \o << <<"glBufferData", "GL_ARRAY_BUFFER", numVerts * kStride,
                 [i \in 1..numVerts |-> AssembledVertex(i - 1, first)]>> >>

Max(S) == CHOOSE x \in S : \A y \in S : y <= x

\* An element of an index buffer is held as its two 16-bit halves <<hi, lo>>,
\* its value being hi * 65536 + lo: hi is 0 in a buffer of 8- or 16-bit indices,
\* and a 32-bit index can have a value no integer of the checker holds.

\* (int)idx[i]: the value of the element read as a signed 32-bit integer
IntCast(e) == (IF e[1] >= 32768 THEN e[1] - 65536 ELSE e[1]) * 65536 + e[2]

\* indices: the caller's index buffer, as the sequence of its elements
MaxIndex(indices, count, type) ==
    IF type \in {"GL_UNSIGNED_SHORT", "GL_UNSIGNED_INT", "GL_UNSIGNED_BYTE"}
    THEN Max({0} \cup {IntCast(indices[i]) : i \in 1..count}) + 1
    ELSE 1

\* the u_hasVertexColors value an array draw uploads, for the color pointer it sees
HasVertexColors(pointer) == BoolToInt(gColorArray.enabled /\ pointer # 0)

bridge_DrawElements(mode, count, type, indices, mallocOK) ==
    /\ Enter(<<"bridge_DrawElements", mode, count, type, indices>>)
    /\ IF gShaderProgram = 0
       THEN /\ out' = <<>>
            /\ UNCHANGED <<uniforms, uploadBuf>>
       ELSE LET numVerts == MaxIndex(indices, count, type)
            IN  /\ uniforms' = [FlushedUniforms(uniforms) EXCEPT
                                  !.u_hasVertexColors = HasVertexColors(gColorArray.pointer)]
                /\ uploadBuf' = UploadClientArrays_buf(numVerts, mallocOK)
                /\ out' = FlushOut
                          \o UploadClientArrays_out(numVerts, 0, mallocOK)
                          \o << <<"glBufferData", "GL_ELEMENT_ARRAY_BUFFER", count * GLTypeSize(type)>>,
                                <<"glDrawElements", mode, count, type>> >>
    /\ UNCHANGED <<legacyVars, objVars, endBuf, crashed>>

\* a descriptor bridge_DrawArrays has moved by first elements and not stored back
ArrayAfterDraw_NoRestore(a, first, stride) ==
    IF gShaderProgram = 0 THEN a
    ELSE [a EXCEPT !.pointer = OffsetPointer(a.pointer, first, stride)]

\* a descriptor when bridge_DrawArrays returns: untouched by the early return,
\* and otherwise moved by first elements for the assembly and then given its
\* saved pointer again
ArrayAfterDraw(a, first, stride) ==
    IF gShaderProgram = 0 THEN a
    ELSE LET savedP == a.pointer
             moved == [a EXCEPT !.pointer = OffsetPointer(a.pointer, first, stride)]
         IN  [moved EXCEPT !.pointer = savedP]

bridge_DrawArrays(mode, first, count, mallocOK) ==
    /\ Enter(<<"bridge_DrawArrays", mode, first, count>>)
    /\ IF gShaderProgram = 0
       THEN /\ out' = <<>>
            /\ UNCHANGED <<uniforms, uploadBuf>>
       ELSE /\ uniforms' = [FlushedUniforms(uniforms) EXCEPT
                              !.u_hasVertexColors =
                                  HasVertexColors(OffsetPointer(gColorArray.pointer, first,
                                                                EffectiveStride(gColorArray)))]
            /\ uploadBuf' = UploadClientArrays_buf(count, mallocOK)
            /\ out' = FlushOut
                      \o UploadClientArrays_out(count, first, mallocOK)
                      \o << <<"glDrawArrays", mode, 0, count>> >>
    \* the four saved pointers are stored back before the call returns
    /\ gVertexArray' = ArrayAfterDraw(gVertexArray, first, EffectiveStride(gVertexArray))
    /\ gNormalArray' = ArrayAfterDraw(gNormalArray, first, NormalStride(gNormalArray))
    /\ gTexCoordArray' = ArrayAfterDraw(gTexCoordArray, first, EffectiveStride(gTexCoordArray))
    /\ gColorArray' = ArrayAfterDraw(gColorArray, first, EffectiveStride(gColorArray))
    /\ UNCHANGED <<matVars, lightVars, stateVars, immVars, objVars, endBuf, crashed>>

\* ------------------------------------------------------------------------
\* Immediate mode (glBegin/glEnd)
\* ------------------------------------------------------------------------

\* gImmVerts is the sequence of the slots written so far, slot 0 first; the
\* slots behind it still hold the zeros of the static array.

\* bridge_Begin without the reset of gImmVertCount
bridge_Begin_KeepCount(mode) ==
    /\ Enter(<<"bridge_Begin", mode>>)
    /\ gImmMode' = mode
    /\ out' = <<>>
    /\ UNCHANGED <<matVars, lightVars, stateVars, arrayVars, gImmVerts, gImmVertCount,
                   gImmCurrentNormal, gImmCurrentTexCoord, gpuVars, scratchVars, crashed>>

bridge_Begin(mode) ==
    /\ Enter(<<"bridge_Begin", mode>>)
    /\ gImmMode' = mode
    /\ gImmVertCount' = 0
    /\ out' = <<>>
    /\ UNCHANGED <<matVars, lightVars, stateVars, arrayVars, gImmVerts, gImmCurrentNormal,
                   gImmCurrentTexCoord, gpuVars, scratchVars, crashed>>

\* the scratch buffer of bridge_End after a call that reaches the allocation
bridge_End_buf(mallocOK) ==
    IF gImmVertCount * kStride > endBuf.bufCap
    THEN [buf |-> IF mallocOK THEN "heap" ELSE "NULL", bufCap |-> gImmVertCount * kStride]
    ELSE endBuf

\* bridge_End without the reset of gImmVertCount after the draw
bridge_End_KeepCount(mallocOK) ==
    /\ Enter(<<"bridge_End">>)
    /\ IF gImmVertCount = 0 \/ gShaderProgram = 0
       THEN /\ out' = <<>>
            /\ UNCHANGED <<gImmVertCount, uniforms, endBuf>>
       ELSE /\ endBuf' = bridge_End_buf(mallocOK)
            /\ IF bridge_End_buf(mallocOK).buf = "NULL"
               THEN /\ gImmVertCount' = 0
                    /\ uniforms' = FlushedUniforms(uniforms)
                    /\ out' = FlushOut
               ELSE /\ UNCHANGED gImmVertCount
                    /\ uniforms' = [FlushedUniforms(uniforms) EXCEPT !.u_hasVertexColors = 1]
                    /\ out' = FlushOut
                              \o << <<"glBufferData", "GL_ARRAY_BUFFER", gImmVertCount * kStride,
                                      SubSeq(gImmVerts, 1, gImmVertCount)>>,
                                    <<"glDrawArrays", gImmMode, 0, gImmVertCount>> >>
    /\ UNCHANGED <<matVars, lightVars, stateVars, arrayVars, gImmVerts, gImmMode,
                   gImmCurrentNormal, gImmCurrentTexCoord, objVars, uploadBuf, crashed>>

\* bridge_End taking u_hasVertexColors from the color array as the array draws do
bridge_End_ArrayColors(mallocOK) ==
    /\ Enter(<<"bridge_End">>)
    /\ IF gImmVertCount = 0 \/ gShaderProgram = 0
       THEN /\ out' = <<>>
            /\ UNCHANGED <<gImmVertCount, uniforms, endBuf>>
       ELSE /\ endBuf' = bridge_End_buf(mallocOK)
            /\ gImmVertCount' = 0
            /\ IF bridge_End_buf(mallocOK).buf = "NULL"
               THEN /\ uniforms' = FlushedUniforms(uniforms)
                    /\ out' = FlushOut
               ELSE /\ uniforms' = [FlushedUniforms(uniforms) EXCEPT
                                      !.u_hasVertexColors = HasVertexColors(gColorArray.pointer)]
                    /\ out' = FlushOut
                              \o << <<"glBufferData", "GL_ARRAY_BUFFER", gImmVertCount * kStride,
                                      SubSeq(gImmVerts, 1, gImmVertCount)>>,
                                    <<"glDrawArrays", gImmMode, 0, gImmVertCount>> >>
    /\ UNCHANGED <<matVars, lightVars, stateVars, arrayVars, gImmVerts, gImmMode,
                   gImmCurrentNormal, gImmCurrentTexCoord, objVars, uploadBuf, crashed>>

bridge_End(mallocOK) ==
    /\ Enter(<<"bridge_End">>)
    /\ IF gImmVertCount = 0 \/ gShaderProgram = 0
       THEN /\ out' = <<>>
            /\ UNCHANGED <<gImmVertCount, uniforms, endBuf>>
       ELSE /\ endBuf' = bridge_End_buf(mallocOK)
            /\ gImmVertCount' = 0
            /\ IF bridge_End_buf(mallocOK).buf = "NULL"
               THEN /\ uniforms' = FlushedUniforms(uniforms)
                    /\ out' = FlushOut
               ELSE /\ uniforms' = [FlushedUniforms(uniforms) EXCEPT !.u_hasVertexColors = 1]
                    /\ out' = FlushOut
                              \o << <<"glBufferData", "GL_ARRAY_BUFFER", gImmVertCount * kStride,
                                      SubSeq(gImmVerts, 1, gImmVertCount)>>,
                                    <<"glDrawArrays", gImmMode, 0, gImmVertCount>> >>
    /\ UNCHANGED <<matVars, lightVars, stateVars, arrayVars, gImmVerts, gImmMode,
                   gImmCurrentNormal, gImmCurrentTexCoord, objVars, uploadBuf, crashed>>

\* ImmVertex with the normal fixed to (0, 0, 1) instead of gImmCurrentNormal
ImmVertex_FixedNormal(x, y, z) ==
    [x |-> x, y |-> y, z |-> z,
     nx |-> 0, ny |-> 0, nz |-> 1,
     u |-> gImmCurrentTexCoord[1], v |-> gImmCurrentTexCoord[2],
     r |-> gCurrentColor[1], g |-> gCurrentColor[2],
     b |-> gCurrentColor[3], a |-> gCurrentColor[4]]

\* the ImmVertex bridge_Vertex3f writes
ImmVertex(x, y, z) ==
    [x |-> x, y |-> y, z |-> z,
     nx |-> gImmCurrentNormal[1], ny |-> gImmCurrentNormal[2], nz |-> gImmCurrentNormal[3],
     u |-> gImmCurrentTexCoord[1], v |-> gImmCurrentTexCoord[2],
     r |-> gCurrentColor[1], g |-> gCurrentColor[2],
     b |-> gCurrentColor[3], a |-> gCurrentColor[4]]

\* gImmVerts[k] = v
ImmVerts_Store(k, v) ==
    IF k < Len(gImmVerts) THEN [gImmVerts EXCEPT ![k + 1] = v] ELSE Append(gImmVerts, v)

\* Vertex3f with the capacity test off by one: gImmVertCount > IMM_MAX_VERTS
Vertex3f_OffByOne(x, y, z) ==
    /\ IF gImmVertCount > IMM_MAX_VERTS
       THEN UNCHANGED <<gImmVerts, gImmVertCount>>
       ELSE /\ gImmVerts' = ImmVerts_Store(gImmVertCount, ImmVertex(x, y, z))
            /\ gImmVertCount' = gImmVertCount + 1
    /\ out' = <<>>
    /\ UNCHANGED <<matVars, lightVars, stateVars, arrayVars, gImmMode, gImmCurrentNormal,
                   gImmCurrentTexCoord, gpuVars, scratchVars, crashed>>

\* the body of bridge_Vertex3f
Vertex3f(x, y, z) ==
    /\ IF gImmVertCount >= IMM_MAX_VERTS
       THEN UNCHANGED <<gImmVerts, gImmVertCount>>
       ELSE /\ gImmVerts' = ImmVerts_Store(gImmVertCount, ImmVertex(x, y, z))
            /\ gImmVertCount' = gImmVertCount + 1
    /\ out' = <<>>
    /\ UNCHANGED <<matVars, lightVars, stateVars, arrayVars, gImmMode, gImmCurrentNormal,
                   gImmCurrentTexCoord, gpuVars, scratchVars, crashed>>

bridge_Vertex3f(x, y, z) ==
    /\ Enter(<<"bridge_Vertex3f", x, y, z>>)
    /\ Vertex3f(x, y, z)

bridge_Vertex2f(x, y) ==
    /\ Enter(<<"bridge_Vertex2f", x, y>>)
    /\ Vertex3f(x, y, 0)

bridge_Normal3f(x, y, z) ==
    /\ Enter(<<"bridge_Normal3f", x, y, z>>)
    /\ gImmCurrentNormal' = <<x, y, z>>
    /\ out' = <<>>
    /\ UNCHANGED <<matVars, lightVars, stateVars, arrayVars, immBufVars, gImmCurrentTexCoord,
                   gpuVars, scratchVars, crashed>>

bridge_TexCoord2f(s, t) ==
    /\ Enter(<<"bridge_TexCoord2f", s, t>>)
    /\ gImmCurrentTexCoord' = <<s, t>>
    /\ out' = <<>>
    /\ UNCHANGED <<matVars, lightVars, stateVars, arrayVars, immBufVars, gImmCurrentNormal,
                   gpuVars, scratchVars, crashed>>

\* ------------------------------------------------------------------------
\* The observer of the matrix stacks
\* ------------------------------------------------------------------------

\* what the observer holds for a stack that went from s to t in one call
Observed(sv, s, t) ==
    IF t.top > s.top THEN Append(sv, MatStack_Top(s)) ELSE SubSeq(sv, 1, t.top)

ObserveStacks ==
    saved' = [p \in {"gMatMV", "gMatProj", "gMatTex"} |->
                CASE p = "gMatMV" -> Observed(saved[p], gMatMV, gMatMV')
                  [] p = "gMatProj" -> Observed(saved[p], gMatProj, gMatProj')
                  [] p = "gMatTex" -> Observed(saved[p], gMatTex, gMatTex')]

\* the number of entries of kAllDataFiles the model keeps, of 108
NumDataFiles == 2

kTouchBtn_COUNT == 4

\* the number of fingers on the screen
NumFingers == 2

\* a finger that is lifted
Lifted == <<"lifted">>

\* a finger that came down where HitButton returned hit and is not lifted yet
Held(hit) == <<"held", hit>>

CallerStatic == callerParams = Mat4_Zero

\* a fresh installation: an empty destination directory
AssetsStatic ==
    /\ stamp = "none"
    /\ destFiles = [i \in 1..NumDataFiles |-> "absent"]
    /\ everCopiedAll = FALSE

\* the touch controls after TouchControls_Init, no finger on the screen
TouchStatic ==
    /\ gBtnDown = [i \in 0..(kTouchBtn_COUNT - 1) |-> FALSE]
    /\ gBtnFinger = [i \in 0..(kTouchBtn_COUNT - 1) |-> -1]
    /\ gJoyActive = FALSE
    /\ gJoyFinger = -1
    /\ fingers = [f \in 1..NumFingers |-> Lifted]

\* the state outside GLESBridge.c when the process starts
OuterStatic ==
    /\ CallerStatic
    /\ AssetsStatic
    /\ TouchStatic

\* an entry point of the bridge that writes nothing outside GLESBridge.c
Observe ==
    /\ ObserveStacks
    /\ UNCHANGED outerVars

\* ------------------------------------------------------------------------
\* The matrix engine: the caller's matrix calls after a successful
\* GLESBridge_Init, from empty stacks and from stacks two pushes short of full
\* ------------------------------------------------------------------------

ModeInputs == {GL_MODELVIEW, GL_PROJECTION, GL_TEXTURE, 0}
MatrixInputs == {[Mat4_Identity EXCEPT ![4] = 1, ![13] = 2]}
AngleAxisInputs == {<<90, 0, 0, 2>>}
VolumeInputs == {<<-1, 1, -1, 1, 1, 3>>}

\* a stack after MatStack_Init and d pushes
PushedStack(d) ==
    [stack |-> [i \in 0..(MATRIX_STACK_DEPTH - 1) |-> IF i <= d THEN Mat4_Identity ELSE Mat4_Zero],
     top |-> d]

\* the state after a successful GLESBridge_Init, then on each stack d pushes
AfterInit(d) ==
    /\ gMatMV = PushedStack(d)
    /\ gMatProj = PushedStack(d)
    /\ gMatTex = PushedStack(d)
    /\ gCurrentStack = "gMatMV"
    /\ gCurrentMode = GL_MODELVIEW
    /\ gLights = [i \in 0..(MAX_LIGHTS - 1) |->
                    [LightState_Static EXCEPT
                        !.ambient = <<0, 0, 0, 100>>,
                        !.diffuse = IF i = 0 THEN <<100, 100, 100, 100>> ELSE <<0, 0, 0, 100>>,
                        !.position = <<0, 0, 1, 0>>]]
    /\ gGlobalAmbient = <<20, 20, 20, 100>>
    /\ gFog = FogState_Static
    /\ gAlphaTest = AlphaTest_Static
    /\ gLightingEnabled = FALSE
    /\ gColorMaterialEnabled = FALSE
    /\ gNormalizeEnabled = FALSE
    /\ gTexture2DEnabled = FALSE
    /\ gCurrentColor = <<100, 100, 100, 100>>
    /\ gVertexArray = ClientArray_Static(4)
    /\ gNormalArray = ClientArray_Static(3)
    /\ gColorArray = ClientArray_Static(4)
    /\ gTexCoordArray = ClientArray_Static(2)
    /\ gImmVerts = <<>>
    /\ gImmVertCount = 0
    /\ gImmMode = 0
    /\ gImmCurrentNormal = <<0, 0, 1>>
    /\ gImmCurrentTexCoord = <<0, 0>>
    /\ gShaderProgram = 1
    /\ gStreamVBO = 1
    /\ gStreamIBO = 2
    /\ gVAO = 1
    /\ uniforms = InitUniforms
    /\ uploadBuf = [buf |-> "NULL", bufCapacity |-> 0]
    /\ endBuf = [buf |-> "NULL", bufCap |-> 0]
    /\ crashed = FALSE
    /\ lastCall = <<"bridge_MatrixMode", GL_MODELVIEW>>
    /\ prevCall = IF d = 0 THEN "GLESBridge_Init" ELSE "bridge_PushMatrix"
    /\ out = <<>>
    /\ saved = [p \in {"gMatMV", "gMatProj", "gMatTex"} |-> [k \in 1..d |-> Mat4_Identity]]

MatrixInit ==
    /\ \E d \in {0, MATRIX_STACK_DEPTH - 2} : AfterInit(d)
    /\ budget = MaxMatrixCalls
    /\ OuterStatic

MatrixNext ==
    \/ \E mode \in ModeInputs : bridge_MatrixMode(mode) /\ Observe
    \/ bridge_LoadIdentity /\ Observe
    \/ \E m \in MatrixInputs : bridge_LoadMatrixf(m) /\ Observe
    \/ \E m \in MatrixInputs : bridge_MultMatrixf(m) /\ Observe
    \/ bridge_PushMatrix /\ Observe
    \/ bridge_PopMatrix /\ Observe
    \/ bridge_Translatef(1, 2, 3) /\ Observe
    \/ \E r \in AngleAxisInputs : bridge_Rotatef(r[1], r[2], r[3], r[4]) /\ Observe
    \/ bridge_Scalef(2, 3, 4) /\ Observe
    \/ \E v \in VolumeInputs : bridge_Ortho(v[1], v[2], v[3], v[4], v[5], v[6]) /\ Observe
    \/ \E v \in VolumeInputs : bridge_Frustum(v[1], v[2], v[3], v[4], v[5], v[6]) /\ Observe
    \/ GLESBridge_Init(TRUE, TRUE, TRUE) /\ Observe

SpecMatrix == MatrixInit /\ [][MatrixNext]_vars

\* ------------------------------------------------------------------------
\* The whole shim: every entry point, from the start of the process, from the
\* state a successful GLESBridge_Init leaves and from a scene that is set up
\* ------------------------------------------------------------------------

\* the vertex recorded by glVertex3f(1, 2, 3) in the scene below
SceneVertex ==
    [x |-> 1, y |-> 2, z |-> 3, nx |-> 0, ny |-> 0, nz |-> 1, u |-> 0, v |-> 0,
     r |-> 100, g |-> 50, b |-> 0, a |-> 100]

\* the state after GLESBridge_Init, glEnable of GL_LIGHTING, GL_FOG,
\* GL_ALPHA_TEST and GL_TEXTURE_2D, glColor4f(1, .5, 0, 1),
\* glEnableClientState(GL_COLOR_ARRAY), glColorPointer(4, GL_FLOAT, 0, 64),
\* glMatrixMode(GL_PROJECTION), glTranslatef(1, 2, 3), glBegin(4) and
\* glVertex3f(1, 2, 3): nothing has been flushed or drawn yet
AfterSetup ==
    /\ gMatMV = PushedStack(0)
    /\ gMatProj = [PushedStack(0) EXCEPT !.stack[0] = TranslateMatrix(1, 2, 3)]
    /\ gMatTex = PushedStack(0)
    /\ gCurrentStack = "gMatProj"
    /\ gCurrentMode = GL_PROJECTION
    /\ gLights = [i \in 0..(MAX_LIGHTS - 1) |->
                    [LightState_Static EXCEPT
                        !.ambient = <<0, 0, 0, 100>>,
                        !.diffuse = IF i = 0 THEN <<100, 100, 100, 100>> ELSE <<0, 0, 0, 100>>,
                        !.position = <<0, 0, 1, 0>>]]
    /\ gGlobalAmbient = <<20, 20, 20, 100>>
    /\ gFog = [FogState_Static EXCEPT !.enabled = TRUE]
    /\ gAlphaTest = [AlphaTest_Static EXCEPT !.enabled = TRUE]
    /\ gLightingEnabled = TRUE
    /\ gColorMaterialEnabled = FALSE
    /\ gNormalizeEnabled = FALSE
    /\ gTexture2DEnabled = TRUE
    /\ gCurrentColor = <<100, 50, 0, 100>>
    /\ gVertexArray = ClientArray_Static(4)
    /\ gNormalArray = ClientArray_Static(3)
    /\ gColorArray = [ClientArray_Static(4) EXCEPT !.enabled = TRUE, !.pointer = 64]
    /\ gTexCoordArray = ClientArray_Static(2)
    /\ gImmVerts = <<SceneVertex>>
    /\ gImmVertCount = 1
    /\ gImmMode = 4
    /\ gImmCurrentNormal = <<0, 0, 1>>
    /\ gImmCurrentTexCoord = <<0, 0>>
    /\ gShaderProgram = 1
    /\ gStreamVBO = 1
    /\ gStreamIBO = 2
    /\ gVAO = 1
    /\ uniforms = InitUniforms
    /\ uploadBuf = [buf |-> "NULL", bufCapacity |-> 0]
    /\ endBuf = [buf |-> "NULL", bufCap |-> 0]
    /\ crashed = FALSE
    /\ lastCall = <<"bridge_Vertex3f", 1, 2, 3>>
    /\ prevCall = "bridge_Begin"
    /\ out = <<>>
    /\ saved = [p \in {"gMatMV", "gMatProj", "gMatTex"} |-> <<>>]

Init ==
    /\ StaticInit \/ AfterInit(0) \/ AfterSetup
    /\ budget = MaxCalls
    /\ OuterStatic

\* the driver's answers to the two glCompileShader calls and to glLinkProgram
BuildInputs == {<<TRUE, TRUE, TRUE>>, <<TRUE, FALSE, FALSE>>}
\* the offsets given to glTranslatef
TranslateInputs == {<<1, 2, 3>>, <<-2, 0, 5>>, <<0, 0, 0>>}
\* the volumes given to glOrtho: the volume of VolumeInputs and the cube from -1 to 1
OrthoInputs == VolumeInputs \cup {<<-1, 1, -1, 1, -1, 1>>}
CapInputs ==
    {GL_LIGHT0 + 1, GL_LIGHTING, GL_COLOR_MATERIAL, GL_NORMALIZE, GL_ALPHA_TEST, GL_FOG,
     GL_TEXTURE_2D, 3042}
ColorInputs == {<<50, 60, 70, 80>>}
\* an index buffer of three 16-bit indices
IndexInputs == {<< <<0, 0>>, <<0, 2>>, <<0, 1>> >>}

Next ==
    \/ \E b \in BuildInputs : GLESBridge_Init(b[1], b[2], b[3]) /\ Observe
    \/ GLESBridge_Shutdown /\ Observe
    \/ \E mode \in {GL_MODELVIEW, GL_TEXTURE} : bridge_MatrixMode(mode) /\ Observe
    \/ bridge_LoadIdentity /\ Observe
    \/ \E m \in MatrixInputs : bridge_LoadMatrixf(m) /\ Observe
    \/ \E m \in MatrixInputs : bridge_MultMatrixf(m) /\ Observe
    \/ bridge_PushMatrix /\ Observe
    \/ bridge_PopMatrix /\ Observe
    \/ \E t \in TranslateInputs : bridge_Translatef(t[1], t[2], t[3]) /\ Observe
    \/ \E r \in AngleAxisInputs : bridge_Rotatef(r[1], r[2], r[3], r[4]) /\ Observe
    \/ bridge_Scalef(2, 3, 4) /\ Observe
    \/ \E v \in OrthoInputs : bridge_Ortho(v[1], v[2], v[3], v[4], v[5], v[6]) /\ Observe
    \/ \E v \in VolumeInputs : bridge_Frustum(v[1], v[2], v[3], v[4], v[5], v[6]) /\ Observe
    \/ \E l \in {<<GL_LIGHT0 + 1, GL_POSITION>>, <<GL_LIGHT0 + 1, GL_DIFFUSE>>,
                 <<GL_LIGHT0, GL_AMBIENT>>, <<GL_LIGHT0 + 7, GL_SPECULAR>>,
                 <<GL_LIGHT0 - 1, GL_AMBIENT>>, <<GL_LIGHT0 + 8, GL_DIFFUSE>>} :
          bridge_Lightfv(l[1], l[2], <<1, 2, 3, 0>>) /\ Observe
    \/ \E c \in ColorInputs : bridge_LightModelfv(GL_LIGHT_MODEL_AMBIENT, c) /\ Observe
    \/ bridge_Fogf(GL_FOG_START, 5) /\ Observe
    \/ \E c \in ColorInputs : bridge_Fogfv(GL_FOG_COLOR, c) /\ Observe
    \/ bridge_Fogi(GL_FOG_END, 7) /\ Observe
    \/ bridge_AlphaFunc(516, 50) /\ Observe
    \/ \E cap \in CapInputs : bridge_Enable(cap) /\ Observe
    \/ \E cap \in {GL_LIGHTING, GL_FOG} : bridge_Disable(cap) /\ Observe
    \/ \E cap \in {GL_LIGHT0 + 1, GL_FOG, GL_NORMALIZE} : bridge_IsEnabled(cap) /\ Observe
    \/ bridge_Color4f(10, 20, 30, 40) /\ Observe
    \/ \E c \in ColorInputs : bridge_Color4fv(c) /\ Observe
    \/ \E array \in {GL_VERTEX_ARRAY, GL_COLOR_ARRAY} : bridge_EnableClientState(array) /\ Observe
    \/ bridge_DisableClientState(GL_COLOR_ARRAY) /\ Observe
    \/ bridge_VertexPointer(3, "GL_FLOAT", 0, 16) /\ Observe
    \/ bridge_NormalPointer("GL_FLOAT", 0, 32) /\ Observe
    \/ bridge_TexCoordPointer(2, "GL_FLOAT", 0, 48) /\ Observe
    \/ bridge_ColorPointer(4, "GL_FLOAT", 0, 64) /\ Observe
    \/ bridge_FlushState /\ Observe
    \/ \E i \in IndexInputs, mallocOK \in BOOLEAN :
          bridge_DrawElements(4, Len(i), "GL_UNSIGNED_SHORT", i, mallocOK) /\ Observe
    \/ \E mallocOK \in BOOLEAN : bridge_DrawArrays(4, 1, 3, mallocOK) /\ Observe
    \/ bridge_Begin(5) /\ Observe
    \/ \E mallocOK \in BOOLEAN : bridge_End(mallocOK) /\ Observe
    \/ bridge_Vertex3f(4, 5, 6) /\ Observe
    \/ bridge_Vertex2f(7, 8) /\ Observe
    \/ bridge_Normal3f(1, 0, 0) /\ Observe
    \/ bridge_TexCoord2f(25, 75) /\ Observe

Spec == Init /\ [][Next]_vars

\* ------------------------------------------------------------------------
\* The immediate-mode recorder: the caller's glBegin/glEnd brackets after a
\* successful GLESBridge_Init, from an empty recorder and from a bracket one
\* vertex short of the capacity
\* ------------------------------------------------------------------------

\* the vertex glVertex3f(1, 2, 3) records right after GLESBridge_Init
FirstVertex ==
    [x |-> 1, y |-> 2, z |-> 3, nx |-> 0, ny |-> 0, nz |-> 1, u |-> 0, v |-> 0,
     r |-> 100, g |-> 100, b |-> 100, a |-> 100]

\* the state after GLESBridge_Init, glBegin(4) and n calls glVertex3f(1, 2, 3)
AfterVertices(n) ==
    /\ gMatMV = PushedStack(0)
    /\ gMatProj = PushedStack(0)
    /\ gMatTex = PushedStack(0)
    /\ gCurrentStack = "gMatMV"
    /\ gCurrentMode = GL_MODELVIEW
    /\ gLights = [i \in 0..(MAX_LIGHTS - 1) |->
                    [LightState_Static EXCEPT
                        !.ambient = <<0, 0, 0, 100>>,
                        !.diffuse = IF i = 0 THEN <<100, 100, 100, 100>> ELSE <<0, 0, 0, 100>>,
                        !.position = <<0, 0, 1, 0>>]]
    /\ gGlobalAmbient = <<20, 20, 20, 100>>
    /\ gFog = FogState_Static
    /\ gAlphaTest = AlphaTest_Static
    /\ gLightingEnabled = FALSE
    /\ gColorMaterialEnabled = FALSE
    /\ gNormalizeEnabled = FALSE
    /\ gTexture2DEnabled = FALSE
    /\ gCurrentColor = <<100, 100, 100, 100>>
    /\ gVertexArray = ClientArray_Static(4)
    /\ gNormalArray = ClientArray_Static(3)
    /\ gColorArray = ClientArray_Static(4)
    /\ gTexCoordArray = ClientArray_Static(2)
    /\ gImmVerts = [k \in 1..n |-> FirstVertex]
    /\ gImmVertCount = n
    /\ gImmMode = 4
    /\ gImmCurrentNormal = <<0, 0, 1>>
    /\ gImmCurrentTexCoord = <<0, 0>>
    /\ gShaderProgram = 1
    /\ gStreamVBO = 1
    /\ gStreamIBO = 2
    /\ gVAO = 1
    /\ uniforms = InitUniforms
    /\ uploadBuf = [buf |-> "NULL", bufCapacity |-> 0]
    /\ endBuf = [buf |-> "NULL", bufCap |-> 0]
    /\ crashed = FALSE
    /\ lastCall = IF n = 0 THEN <<"bridge_Begin", 4>> ELSE <<"bridge_Vertex3f", 1, 2, 3>>
    /\ prevCall = CASE n = 0 -> "GLESBridge_Init"
                    [] n = 1 -> "bridge_Begin"
                    [] OTHER -> "bridge_Vertex3f"
    /\ out = <<>>
    /\ saved = [p \in {"gMatMV", "gMatProj", "gMatTex"} |-> <<>>]

ImmInit ==
    /\ \E n \in {0, IMM_MAX_VERTS - 1} : AfterVertices(n)
    /\ budget = MaxImmCalls
    /\ OuterStatic

ImmNext ==
    \/ \E mode \in {1, 5} : bridge_Begin(mode) /\ Observe
    \/ \E mallocOK \in BOOLEAN : bridge_End(mallocOK) /\ Observe
    \/ bridge_Vertex3f(4, 5, 6) /\ Observe
    \/ bridge_Vertex2f(7, 8) /\ Observe
    \/ bridge_Normal3f(1, 0, 0) /\ Observe
    \/ bridge_TexCoord2f(25, 75) /\ Observe
    \/ bridge_Color4f(10, 20, 30, 40) /\ Observe

SpecImm == ImmInit /\ [][ImmNext]_vars

\* ------------------------------------------------------------------------
\* The array draws alone, called by a program that has set its vertex arrays up
\* ------------------------------------------------------------------------

MaxDrawCalls == 3

\* The state after GLESBridge_Init with both compilations and the link
\* succeeding, glEnableClientState of the four arrays,
\* glVertexPointer(3, GL_FLOAT, 0, 1000), glNormalPointer(GL_FLOAT, 0, 2000),
\* glTexCoordPointer(2, GL_FLOAT, 0, 3000), glColorPointer(4, GL_FLOAT, 0, 4000),
\* glBegin(4) and glVertex3f(1, 2, 3): nothing has been drawn yet
AfterArrays ==
    /\ gMatMV = PushedStack(0)
    /\ gMatProj = PushedStack(0)
    /\ gMatTex = PushedStack(0)
    /\ gCurrentStack = "gMatMV"
    /\ gCurrentMode = GL_MODELVIEW
    /\ gLights = [i \in 0..(MAX_LIGHTS - 1) |->
                    [LightState_Static EXCEPT
                        !.ambient = <<0, 0, 0, 100>>,
                        !.diffuse = IF i = 0 THEN <<100, 100, 100, 100>> ELSE <<0, 0, 0, 100>>,
                        !.position = <<0, 0, 1, 0>>]]
    /\ gGlobalAmbient = <<20, 20, 20, 100>>
    /\ gFog = FogState_Static
    /\ gAlphaTest = AlphaTest_Static
    /\ gLightingEnabled = FALSE
    /\ gColorMaterialEnabled = FALSE
    /\ gNormalizeEnabled = FALSE
    /\ gTexture2DEnabled = FALSE
    /\ gCurrentColor = <<100, 100, 100, 100>>
    /\ gVertexArray = [enabled |-> TRUE, size |-> 3, type |-> "GL_FLOAT", stride |-> 0, pointer |-> 1000]
    /\ gNormalArray = [enabled |-> TRUE, size |-> 3, type |-> "GL_FLOAT", stride |-> 0, pointer |-> 2000]
    /\ gColorArray = [enabled |-> TRUE, size |-> 4, type |-> "GL_FLOAT", stride |-> 0, pointer |-> 4000]
    /\ gTexCoordArray = [enabled |-> TRUE, size |-> 2, type |-> "GL_FLOAT", stride |-> 0, pointer |-> 3000]
    /\ gImmVerts = <<FirstVertex>>
    /\ gImmVertCount = 1
    /\ gImmMode = 4
    /\ gImmCurrentNormal = <<0, 0, 1>>
    /\ gImmCurrentTexCoord = <<0, 0>>
    /\ gShaderProgram = 1
    /\ gStreamVBO = 1
    /\ gStreamIBO = 2
    /\ gVAO = 1
    /\ uniforms = InitUniforms
    /\ uploadBuf = [buf |-> "NULL", bufCapacity |-> 0]
    /\ endBuf = [buf |-> "NULL", bufCap |-> 0]
    /\ crashed = FALSE
    /\ lastCall = <<"bridge_Vertex3f", 1, 2, 3>>
    /\ prevCall = "bridge_Begin"
    /\ out = <<>>
    /\ saved = [p \in {"gMatMV", "gMatProj", "gMatTex"} |-> <<>>]

DrawInit ==
    /\ AfterInit(0) \/ AfterArrays
    /\ budget = MaxDrawCalls
    /\ OuterStatic

\* first, count and whether malloc has memory, of a glDrawArrays call
ArraysInputs == {<<0, 3, TRUE>>, <<0, 3, FALSE>>, <<2, 2, TRUE>>, <<2, 3, FALSE>>}

\* the type, the elements and whether malloc has memory, of a glDrawElements call
ElementsInputs ==
    {<<"GL_UNSIGNED_SHORT", << <<0, 0>>, <<0, 2>>, <<0, 1>> >>, TRUE>>,
     <<"GL_UNSIGNED_SHORT", << <<0, 0>>, <<0, 2>>, <<0, 1>> >>, FALSE>>,
     <<"GL_UNSIGNED_BYTE", << <<0, 1>>, <<0, 0>> >>, TRUE>>,
     <<"GL_UNSIGNED_INT", << <<0, 1>>, <<32768, 0>> >>, TRUE>>}

DrawNext ==
    \/ bridge_VertexPointer(2, "GL_FLOAT", 0, 1000) /\ Observe
    \/ bridge_NormalPointer("GL_FLOAT", 24, 2000) /\ Observe
    \/ bridge_TexCoordPointer(2, "GL_FLOAT", 16, 3000) /\ Observe
    \/ bridge_ColorPointer(4, "GL_UNSIGNED_BYTE", 0, 4000) /\ Observe
    \/ bridge_EnableClientState(GL_TEXTURE_COORD_ARRAY) /\ Observe
    \/ bridge_DisableClientState(GL_NORMAL_ARRAY) /\ Observe
    \/ bridge_Color4f(10, 20, 30, 40) /\ Observe
    \/ GLESBridge_Shutdown /\ Observe
    \/ \E b \in BuildInputs : GLESBridge_Init(b[1], b[2], b[3]) /\ Observe
    \/ \E a \in ArraysInputs : bridge_DrawArrays(4, a[1], a[2], a[3]) /\ Observe
    \/ \E e \in ElementsInputs : bridge_DrawElements(4, Len(e[2]), e[1], e[2], e[3]) /\ Observe
    \/ bridge_Begin(4) /\ Observe
    \/ bridge_Vertex3f(4, 5, 6) /\ Observe
    \/ \E mallocOK \in BOOLEAN : bridge_End(mallocOK) /\ Observe

SpecDraw == DrawInit /\ [][DrawNext]_vars

\* ------------------------------------------------------------------------
\* Claims about the matrix engine (SpecMatrix)
\* ------------------------------------------------------------------------

StackNames == {"gMatMV", "gMatProj", "gMatTex"}

MatrixOpNames ==
    {"bridge_LoadIdentity", "bridge_LoadMatrixf", "bridge_MultMatrixf", "bridge_PushMatrix",
     "bridge_PopMatrix", "bridge_Translatef", "bridge_Rotatef", "bridge_Scalef",
     "bridge_Ortho", "bridge_Frustum"}

\* C3: after any sequence of selectStack, push, pop, load, multiply,
\* translate/rotate/scale, ortho/frustum and Init calls, the top index of each
\* of the three matrix stacks lies in [0, 32).
C3_TopInRange ==
    \A p \in StackNames : Deref(p).top >= 0 /\ Deref(p).top < MATRIX_STACK_DEPTH

\* C3 witness: a pop was refused on the empty texture stack, whose top index
\* stays 0.
C3_Witness ==
    /\ lastCall[1] = "bridge_PopMatrix"
    /\ out = << <<"LOGE", "Matrix stack underflow">> >>
    /\ gCurrentStack = "gMatTex"
    /\ gMatTex.top = 0

\* C4: a push on a full stack (top index 31) and a pop on a stack at depth 0
\* do not fail the caller and leave the stack's top index and every stored
\* matrix (of all three stacks) as they were before the call.
C4_RefusedPushPopKeepStack ==
    [][(/\ gCurrentStack # "NULL"
        /\ \/ /\ lastCall'[1] = "bridge_PushMatrix"
              /\ Deref(gCurrentStack).top = MATRIX_STACK_DEPTH - 1
           \/ /\ lastCall'[1] = "bridge_PopMatrix"
              /\ Deref(gCurrentStack).top = 0)
       => /\ gMatMV' = gMatMV
          /\ gMatProj' = gMatProj
          /\ gMatTex' = gMatTex
          /\ crashed' = FALSE]_vars

\* C4 witness: a push was refused on the full projection stack.
C4_Witness ==
    /\ lastCall[1] = "bridge_PushMatrix"
    /\ out = << <<"LOGE", "Matrix stack overflow">> >>
    /\ gCurrentStack = "gMatProj"
    /\ gMatProj.top = MATRIX_STACK_DEPTH - 1

\* C5: a pop that succeeds leaves the depth the stack had before the matching
\* push and, on top, the matrix that was on top before that push, whatever
\* load/multiply operations and balanced push/pop pairs ran in between.
C5_PopRestoresPushedTop ==
    [][(/\ lastCall'[1] = "bridge_PopMatrix"
        /\ gCurrentStack # "NULL"
        /\ Deref(gCurrentStack).top > 0)
       => /\ Deref(gCurrentStack)'.top = Len(saved[gCurrentStack]) - 1
          /\ MatStack_Top(Deref(gCurrentStack))' = saved[gCurrentStack][Len(saved[gCurrentStack])]
          /\ Len(saved'[gCurrentStack]) = Deref(gCurrentStack)'.top]_vars

\* C5 witness: a pop has succeeded, and the matrix it removed differs from the
\* one it restored (the top was changed between the push and the pop).
C5_Witness ==
    /\ lastCall[1] = "bridge_PopMatrix"
    /\ out = <<>>
    /\ gCurrentStack = "gMatProj"
    /\ gMatProj.stack[gMatProj.top + 1] # MatStack_Top(gMatProj)

\* C7: loadIdentity, loadMatrix, multiply, push, pop, translate, rotate, scale,
\* ortho and frustum leave the depth and all entries of the two stacks that
\* are not active unchanged.
C7_OnlyActiveStackChanges ==
    [][lastCall'[1] \in MatrixOpNames
       => /\ gCurrentStack # "gMatMV" => gMatMV' = gMatMV
          /\ gCurrentStack # "gMatProj" => gMatProj' = gMatProj
          /\ gCurrentStack # "gMatTex" => gMatTex' = gMatTex]_vars

\* C7 witness: a frustum call has changed the top of the active texture stack.
C7_Witness ==
    /\ lastCall[1] = "bridge_Frustum"
    /\ gCurrentStack = "gMatTex"
    /\ MatStack_Top(gMatTex) # Mat4_Identity
    /\ MatStack_Top(gMatMV) = Mat4_Identity
    /\ MatStack_Top(gMatProj) = Mat4_Identity

\* ------------------------------------------------------------------------
\* Claims about the whole shim (Spec)
\* ------------------------------------------------------------------------

DrawEntryNames == {"bridge_DrawElements", "bridge_DrawArrays", "bridge_End"}

\* the positions in out of the GPU draw commands of the last call
DrawsIn(o) == {k \in 1..Len(o) : o[k][1] \in {"glDrawElements", "glDrawArrays"}}

\* the positions in out of the buffer uploads of the last call
UploadsIn(o) == {k \in 1..Len(o) : o[k][1] = "glBufferData"}

\* the uniforms C1 lists hold the values of the legacy state
UniformsMatchLegacy ==
    /\ uniforms.u_mvMatrix = MatStack_Top(gMatMV)
    /\ uniforms.u_projMatrix = MatStack_Top(gMatProj)
    /\ uniforms.u_texMatrix = MatStack_Top(gMatTex)
    /\ uniforms.u_normalMatrix = [i \in 0..8 |-> MatStack_Top(gMatMV)[(i \div 3) * 4 + (i % 3)]]
    /\ (uniforms.u_lightingEnabled # 0) = gLightingEnabled
    /\ (uniforms.u_colorMaterial # 0) = gColorMaterialEnabled
    /\ uniforms.u_globalAmbient = gGlobalAmbient
    /\ \A i \in 0..(MAX_LIGHTS - 1) :
          /\ (uniforms.u_lightEnabled[i] # 0) = gLights[i].enabled
          /\ uniforms.u_lightPos[i] = gLights[i].position
          /\ uniforms.u_lightAmbient[i] = gLights[i].ambient
          /\ uniforms.u_lightDiffuse[i] = gLights[i].diffuse
    /\ (uniforms.u_fogEnabled # 0) = gFog.enabled
    /\ (uniforms.u_alphaTestEnabled # 0) = gAlphaTest.enabled
    /\ (uniforms.u_textureEnabled # 0) = gTexture2DEnabled
    /\ uniforms.u_currentColor = gCurrentColor

\* C1: a call that issues a GPU draw is one of bridge_DrawElements,
\* bridge_DrawArrays and bridge_End, has flushed before the draw (the flush is
\* the first thing it asks of the driver), and at the draw the uniforms (the
\* three stack tops, the normal matrix, the lighting and color-material
\* switches, the global ambient, every light's enabled/position/ambient/
\* diffuse, fog-enabled, alpha-test-enabled, texturing-enabled, CurrentColor)
\* equal the legacy state.
C1_DrawSeesFlushedState ==
    DrawsIn(out) # {}
    => /\ lastCall[1] \in DrawEntryNames
       /\ out[1][1] = "glUseProgram"
       /\ \A k \in DrawsIn(out) : k > 1
       /\ UniformsMatchLegacy

\* C1 witness: an indexed draw was issued after glColor4f(.1, .2, .3, .4) with
\* fog enabled, and the uniforms hold that color and the fog switch.
C1_Witness ==
    /\ lastCall[1] = "bridge_DrawElements"
    /\ prevCall = "bridge_Color4f"
    /\ DrawsIn(out) # {}
    /\ gFog.enabled
    /\ uniforms.u_fogEnabled = 1
    /\ uniforms.u_currentColor = <<10, 20, 30, 40>>

\* C2: while the shader program is not built (the build failed, or
\* GLESBridge_Init never ran), bridge_DrawElements, bridge_DrawArrays and
\* bridge_End issue no upload and no draw, and every other entry point
\* completes and updates the legacy state as it does once initialized: a
\* matrix call leaves one active stack, whose top glLoadIdentity sets to the
\* identity, and glColor4f sets CurrentColor.
C2_DisabledShimKeepsState ==
    [][gShaderProgram = 0
       => /\ lastCall'[1] \in DrawEntryNames
             => DrawsIn(out') = {} /\ UploadsIn(out') = {}
          /\ lastCall'[1] \notin {"GLESBridge_Init", "GLESBridge_Shutdown"} => gShaderProgram' = 0
          /\ crashed' = FALSE
          /\ lastCall'[1] \in MatrixOpNames => gCurrentStack' \in StackNames
          /\ lastCall'[1] = "bridge_LoadIdentity"
             => \E p \in StackNames : p = gCurrentStack' /\ MatStack_Top(Deref(p))' = Mat4_Identity
          /\ lastCall'[1] = "bridge_Color4f"
             => gCurrentColor' = <<lastCall'[2], lastCall'[3], lastCall'[4], lastCall'[5]>>]_vars

\* C6: in every reachable state, the state before GLESBridge_Init has ever run
\* and the state after GLESBridge_Shutdown included, exactly one of the three
\* matrix stacks is the active stack.
C6_OneStackActive == gCurrentStack \in StackNames

\* ------------------------------------------------------------------------
\* Claims about the immediate-mode recorder (SpecImm)
\* ------------------------------------------------------------------------

SubmitNames == {"bridge_Vertex3f", "bridge_Vertex2f"}

\* C8: the recorded-vertex count never exceeds 8192 and no slot past 8191 is
\* written; a submission made when 8192 vertices are recorded (the 8193rd and
\* later ones of a bracket) changes no recorded vertex and not the count; and
\* bridge_End of such a bracket, with the shader built and its scratch buffer
\* allocated, uploads the 8192 recorded vertices - the first 8192 submitted -
\* and draws 8192 vertices, and on no path draws anything else.
C8_RecorderKeepsCapacity ==
    [][/\ gImmVertCount' <= IMM_MAX_VERTS
       /\ Len(gImmVerts') <= IMM_MAX_VERTS
       /\ (lastCall'[1] \in SubmitNames /\ gImmVertCount >= IMM_MAX_VERTS)
          => /\ gImmVerts' = gImmVerts
             /\ gImmVertCount' = gImmVertCount
             /\ crashed' = FALSE
       /\ (lastCall'[1] = "bridge_End" /\ gImmVertCount >= IMM_MAX_VERTS)
          => /\ \A k \in DrawsIn(out') : out'[k] = <<"glDrawArrays", gImmMode, 0, IMM_MAX_VERTS>>
             /\ \A k \in UploadsIn(out') :
                   out'[k] = <<"glBufferData", "GL_ARRAY_BUFFER", IMM_MAX_VERTS * kStride,
                               SubSeq(gImmVerts, 1, IMM_MAX_VERTS)>>
             /\ (gShaderProgram # 0 /\ endBuf'.buf # "NULL")
                => Cardinality(DrawsIn(out')) = 1 /\ Cardinality(UploadsIn(out')) = 1]_vars

\* C8 witness: glVertex3f was called with 8192 vertices recorded, the last of
\* them submitted by glVertex2f(7, 8), and was dropped.
C8_Witness ==
    /\ lastCall[1] = "bridge_Vertex3f"
    /\ prevCall = "bridge_Vertex2f"
    /\ gImmVertCount = IMM_MAX_VERTS
    /\ Len(gImmVerts) = IMM_MAX_VERTS
    /\ gImmVerts[IMM_MAX_VERTS].x = 7
    /\ gImmVerts[IMM_MAX_VERTS].z = 0

\* C9: glEnd called right after glBegin, no vertex submitted in between,
\* issues no flush (no driver command, no uniform changes), no buffer upload
\* and no draw, whatever the recorder holds from earlier brackets.
C9_EmptyBracketDrawsNothing ==
    [][(lastCall[1] = "bridge_Begin" /\ lastCall'[1] = "bridge_End")
       => /\ out' = <<>>
          /\ uniforms' = uniforms
          /\ gImmVertCount' = 0]_vars

\* C9 witness: glEnd has run right after glBegin with the shader built, while
\* the recorder still holds vertices of an earlier bracket.
C9_Witness ==
    /\ lastCall[1] = "bridge_End"
    /\ prevCall = "bridge_Begin"
    /\ gShaderProgram # 0
    /\ Len(gImmVerts) > 1
    /\ out = <<>>

\* glBegin stores the primitive mode it is given, and no other call of the
\* recorder changes it
ImmModeIsBeginMode ==
    IF lastCall'[1] = "bridge_Begin" THEN gImmMode' = lastCall'[2] ELSE gImmMode' = gImmMode

\* what C10 says of a glEnd that finds n >= 1 recorded vertices: one
\* non-indexed draw of n vertices in the mode of the bracket's glBegin, the
\* has-explicit-vertex-colors flag true, and the count reset
EndDrawsRecorded ==
    /\ Cardinality(DrawsIn(out')) = 1
    /\ \A k \in DrawsIn(out') : out'[k] = <<"glDrawArrays", gImmMode, 0, gImmVertCount>>
    /\ uniforms'.u_hasVertexColors = 1
    /\ gImmVertCount' = 0

C11_VertexLatchesState ==
    [][/\ lastCall'[1] \in {"bridge_Normal3f", "bridge_TexCoord2f", "bridge_Color4f"}
          => gImmVerts' = gImmVerts /\ gImmVertCount' = gImmVertCount
       /\ lastCall'[1] = "bridge_Normal3f"
          => gImmCurrentNormal' = <<lastCall'[2], lastCall'[3], lastCall'[4]>>
       /\ lastCall'[1] # "bridge_Normal3f" => gImmCurrentNormal' = gImmCurrentNormal
       /\ lastCall'[1] = "bridge_TexCoord2f"
          => gImmCurrentTexCoord' = <<lastCall'[2], lastCall'[3]>>
       /\ lastCall'[1] # "bridge_TexCoord2f" => gImmCurrentTexCoord' = gImmCurrentTexCoord
       /\ lastCall'[1] = "bridge_Color4f"
          => gCurrentColor' = <<lastCall'[2], lastCall'[3], lastCall'[4], lastCall'[5]>>
       /\ lastCall'[1] # "bridge_Color4f" => gCurrentColor' = gCurrentColor
       /\ (lastCall'[1] \in SubmitNames /\ gImmVertCount < IMM_MAX_VERTS)
          => /\ gImmVertCount' = gImmVertCount + 1
             /\ \A k \in 1..gImmVertCount : gImmVerts'[k] = gImmVerts[k]
             /\ LET w == gImmVerts'[gImmVertCount + 1]
                IN  /\ <<w.x, w.y>> = <<lastCall'[2], lastCall'[3]>>
                    /\ <<w.nx, w.ny, w.nz>> = gImmCurrentNormal
                    /\ <<w.u, w.v>> = gImmCurrentTexCoord
                    /\ <<w.r, w.g, w.b, w.a>> = gCurrentColor
       /\ lastCall'[1] = "bridge_End"
          => /\ gImmVerts' = gImmVerts
             /\ \A k \in UploadsIn(out') : out'[k][4] = SubSeq(gImmVerts, 1, gImmVertCount)]_vars

\* C11 witness: glEnd has uploaded 8192 vertices of which the last, submitted
\* after glNormal3f(1, 0, 0), carries that normal and the one before it still
\* carries the normal (0, 0, 1) it was submitted with.
C11_Witness ==
    /\ lastCall[1] = "bridge_End"
    /\ UploadsIn(out) = {2}
    /\ Len(out[2][4]) = IMM_MAX_VERTS
    /\ out[2][4][IMM_MAX_VERTS].nx = 1
    /\ out[2][4][IMM_MAX_VERTS - 1].nx = 0
    /\ out[2][4][IMM_MAX_VERTS - 1].nz = 1

\* C12 as stated: after every glBegin and after every glEnd, in every
\* lifecycle state of the shim, the recorded-vertex count is zero.
C12_RecorderEmptyAfterBeginAndEnd ==
    lastCall[1] \in {"bridge_Begin", "bridge_End"} => gImmVertCount = 0

\* C12 amended: the count is zero after every glBegin, and after every glEnd
\* that runs with the shader program built; a glEnd that runs without a
\* built program is a no-op and leaves the count as it found it.
C12_RecorderEmptyAfterBeginAndBuiltEnd ==
    [][/\ lastCall'[1] = "bridge_Begin" => gImmVertCount' = 0
       /\ (lastCall'[1] = "bridge_End" /\ gShaderProgram # 0) => gImmVertCount' = 0
       /\ (lastCall'[1] = "bridge_End" /\ gShaderProgram = 0)
          => gImmVertCount' = gImmVertCount /\ out' = <<>>]_vars

\* C12 witness: glEnd has drawn the recorded vertex of the scene and left the
\* recorder empty.
C12_Witness ==
    /\ lastCall[1] = "bridge_End"
    /\ prevCall = "bridge_Vertex3f"
    /\ gShaderProgram # 0
    /\ DrawsIn(out) # {}
    /\ gImmVertCount = 0

\* ------------------------------------------------------------------------
\* The geometry assembler
\* ------------------------------------------------------------------------

ArrayDrawNames == {"bridge_DrawElements", "bridge_DrawArrays"}

\* the positions in a list of commands of the uploads of assembled vertices
ArrayUploadsIn(o) == {k \in UploadsIn(o) : o[k][2] = "GL_ARRAY_BUFFER"}

\* the positions in a list of commands of the reads of the caller's arrays
ReadsIn(o) == {k \in 1..Len(o) : o[k][1] = "read"}

\* the descriptor the caller set for a channel
Descriptor(name) ==
    CASE name = "position" -> gVertexArray
      [] name = "normal" -> gNormalArray
      [] name = "texcoord" -> gTexCoordArray
      [] name = "color" -> gColorArray

\* the number of source elements a call that has just assembled addresses:
\* the elements it skipped and the vertices it uploaded
ElementsAddressed(call, o) ==
    (IF call[1] = "bridge_DrawArrays" THEN call[3] ELSE 0)
    + Len(o[CHOOSE k \in ArrayUploadsIn(o) : TRUE][4])

\* C13: in every array draw, every byte the assembler reads from a channel lies
\* in [pointer, pointer + (vertexCount-1)*effectiveStride + componentCount*sizeOfType)
\* of the descriptor the caller set for that channel.
C13_ReadsInsideRegion ==
    [][lastCall'[1] \in ArrayDrawNames
       => \A k \in ReadsIn(out') :
            LET d == Descriptor(out'[k][2])
                n == ElementsAddressed(lastCall', out')
            IN  /\ out'[k][3] >= d.pointer
                /\ out'[k][3] + out'[k][4]
                     <= d.pointer + (n - 1) * EffectiveStride(d) + d.size * GLTypeSize(d.type)]_vars

\* the floats of the caller's memory that start at the addresses a list of
\* commands reads a channel at
FloatsRead(o, name, n) == {ReadFloats(o[j][3], n) : j \in {k \in ReadsIn(o) : o[k][2] = name}}

\* C14: every vertex of an assembled buffer has the normal (0,0,1) unless the
\* normal array is enabled and its pointer is not null, the texcoord (0,0)
\* unless the texcoord array is enabled and not null, the current color unless
\* the color array is enabled and not null, and the origin as its position
\* when the position pointer is null; when that pointer is not null the
\* position is read from the caller's array, enabled or not.
C14_DefaultsPerVertex ==
    [][lastCall'[1] \in ArrayDrawNames
       => \A k \in ArrayUploadsIn(out') : \A i \in 1..Len(out'[k][4]) :
            LET w == out'[k][4][i]
            IN  /\ ~(gNormalArray.enabled /\ gNormalArray.pointer # 0)
                     => <<w.nx, w.ny, w.nz>> = <<0, 0, 1>>
                /\ ~(gTexCoordArray.enabled /\ gTexCoordArray.pointer # 0)
                     => <<w.u, w.v>> = <<0, 0>>
                /\ ~(gColorArray.enabled /\ gColorArray.pointer # 0)
                     => <<w.r, w.g, w.b, w.a>> = gCurrentColor
                /\ gVertexArray.pointer = 0 => <<w.x, w.y, w.z>> = <<0, 0, 0>>
                /\ gVertexArray.pointer # 0
                     => <<w.x, w.y, w.z>> \in FloatsRead(out', "position", 3)]_vars

\* glDrawArrays(4, 0, 3) has assembled three vertices with the position array
\* set (two floats apart) but disabled, the texcoord array enabled but null, the
\* normal and the color arrays disabled and null: each vertex has its position
\* from the array and the three defaults
C14_Witness ==
    /\ lastCall = <<"bridge_DrawArrays", 4, 0, 3>>
    /\ ~gVertexArray.enabled /\ gVertexArray.pointer = 1000
    /\ gTexCoordArray.enabled /\ gTexCoordArray.pointer = 0
    /\ ~gNormalArray.enabled /\ ~gColorArray.enabled
    /\ \E k \in ArrayUploadsIn(out) :
         /\ Len(out[k][4]) = 3
         /\ out[k][4][3] = [x |-> 1016, y |-> 1020, z |-> 1024, nx |-> 0, ny |-> 0, nz |-> 1,
                            u |-> 0, v |-> 0, r |-> 100, g |-> 100, b |-> 100, a |-> 100]

\* the largest of the first count elements of an index buffer, as unsigned values
MaxElement(indices, count) ==
    CHOOSE e \in {indices[i] : i \in 1..count} :
        \A i \in 1..count : \/ indices[i][1] < e[1]
                            \/ indices[i][1] = e[1] /\ indices[i][2] <= e[2]

\* n is the unsigned value of the element e plus one
IsSuccessorOf(n, e) == (n - 1) \div 65536 = e[1] /\ (n - 1) % 65536 = e[2]

\* C15: for every buffer of count >= 1 unsigned 8-, 16- or 32-bit indices
\* MaxIndex returns the largest index plus one, and a glDrawElements call that
\* assembles a buffer assembles exactly that many vertices.
C15_IndexedDrawAssemblesSpan ==
    [][(/\ lastCall'[1] = "bridge_DrawElements"
        /\ lastCall'[3] >= 1
        /\ lastCall'[4] \in {"GL_UNSIGNED_BYTE", "GL_UNSIGNED_SHORT", "GL_UNSIGNED_INT"})
       => /\ IsSuccessorOf(MaxIndex(lastCall'[5], lastCall'[3], lastCall'[4]),
                           MaxElement(lastCall'[5], lastCall'[3]))
          /\ \A k \in ArrayUploadsIn(out') :
               IsSuccessorOf(Len(out'[k][4]), MaxElement(lastCall'[5], lastCall'[3]))]_vars

\* the part of an assembled vertex a channel fills
VertexChannel(w, name) ==
    CASE name = "position" -> <<w.x, w.y, w.z>>
      [] name = "normal" -> <<w.nx, w.ny, w.nz>>
      [] name = "texcoord" -> <<w.u, w.v>>
      [] name = "color" -> <<w.r, w.g, w.b, w.a>>

\* the channels the caller's descriptors present to a draw
PresentChannels ==
    {name \in {"normal", "texcoord", "color"} :
        Descriptor(name).enabled /\ Descriptor(name).pointer # 0}
    \cup (IF gVertexArray.pointer # 0 THEN {"position"} ELSE {})

\* C16: a glDrawArrays(mode, first, count) call with first >= 0 that assembles
\* a buffer assembles exactly count vertices, and output vertex i holds, for
\* every present channel, the data read at byte offset (first+i)*effectiveStride
\* from the pointer the caller set, effectiveStride being the stride of the
\* descriptor if nonzero and componentCount*sizeOfType otherwise.
C16_DrawArraysReadsFromFirst ==
    [][(lastCall'[1] = "bridge_DrawArrays" /\ lastCall'[3] >= 0)
       => \A k \in ArrayUploadsIn(out') :
            /\ Len(out'[k][4]) = lastCall'[4]
            /\ \A i \in 0..(lastCall'[4] - 1) : \A name \in PresentChannels :
                 LET d == Descriptor(name)
                     at == d.pointer + (lastCall'[3] + i) * EffectiveStride(d)
                     value == VertexChannel(out'[k][4][i + 1], name)
                 IN  /\ value = ReadFloats(at, Len(value))
                     /\ \E j \in ReadsIn(out') : out'[j][2] = name /\ out'[j][3] = at]_vars

\* glDrawArrays(4, 2, 2) has assembled two vertices from the third and fourth
\* elements of four arrays, the texcoords lying 16 bytes apart
C16_Witness ==
    /\ lastCall = <<"bridge_DrawArrays", 4, 2, 2>>
    /\ PresentChannels = {"position", "normal", "texcoord", "color"}
    /\ gTexCoordArray.stride = 16 /\ gVertexArray.stride = 0
    /\ \E k \in ArrayUploadsIn(out) :
         /\ Len(out[k][4]) = 2
         /\ out[k][4][1].x = 1024 /\ out[k][4][1].u = 3032 /\ out[k][4][1].r = 4032
         /\ out[k][4][2].x = 1036 /\ out[k][4][2].u = 3048 /\ out[k][4][2].nx = 2036

\* C17: when glDrawArrays returns, on every path, the pointer, stride, type,
\* component count and enabled flag of the four client-array descriptors are
\* what they were before the call.
C17_DrawArraysKeepsDescriptors ==
    [][lastCall'[1] = "bridge_DrawArrays"
       => /\ gVertexArray' = gVertexArray
          /\ gNormalArray' = gNormalArray
          /\ gTexCoordArray' = gTexCoordArray
          /\ gColorArray' = gColorArray]_vars

\* glDrawArrays(4, 2, 2) has returned after assembling from the third element
\* of every array, and the four pointers are the ones the caller set
C17_Witness ==
    /\ lastCall = <<"bridge_DrawArrays", 4, 2, 2>>
    /\ gVertexArray.pointer = 1000 /\ gNormalArray.pointer = 2000
    /\ gTexCoordArray.pointer = 3000 /\ gColorArray.pointer = 4000
    /\ \E j \in ReadsIn(out) : out[j][2] = "position" /\ out[j][3] = 1024
    /\ \E j \in ReadsIn(out) : out[j][2] = "color" /\ out[j][3] = 4032

\* ------------------------------------------------------------------------
\* The scratch buffers
\* ------------------------------------------------------------------------

\* a step in which the scratch buffer of the array draws was to grow and malloc failed
UploadGrowthFailed ==
    /\ lastCall'[1] \in ArrayDrawNames
    /\ uploadBuf'.bufCapacity > uploadBuf.bufCapacity
    /\ uploadBuf'.buf = "NULL"

\* a step in which the scratch buffer of bridge_End was to grow and malloc failed
EndGrowthFailed ==
    /\ lastCall'[1] = "bridge_End"
    /\ endBuf'.bufCap > endBuf.bufCap
    /\ endBuf'.buf = "NULL"

\* C18: a glDrawElements, glDrawArrays or glEnd call in which the growth of
\* the scratch buffer fails issues no draw call and does not crash.
C18_FailedGrowthSkipsDraw ==
    [][(UploadGrowthFailed \/ EndGrowthFailed)
       => DrawsIn(out') = {} /\ ~crashed']_vars

\* C19: after a draw whose scratch-buffer allocation failed, a later draw in
\* which malloc does not fail is assembled, uploaded and drawn, also when it
\* needs no more vertices than the failed one.
C19_DrawAfterFailureRecovers ==
    [][/\ (/\ lastCall'[1] \in ArrayDrawNames
           /\ gShaderProgram # 0
           /\ uploadBuf.buf = "NULL" /\ uploadBuf.bufCapacity > 0
           /\ ~UploadGrowthFailed)
          => ArrayUploadsIn(out') # {} /\ DrawsIn(out') # {}
       /\ (/\ lastCall'[1] = "bridge_End"
           /\ gShaderProgram # 0 /\ gImmVertCount > 0
           /\ endBuf.buf = "NULL" /\ endBuf.bufCap > 0
           /\ ~EndGrowthFailed)
          => UploadsIn(out') # {} /\ DrawsIn(out') # {}]_vars

\* the bytes a call that has just been made needs in its scratch buffer,
\* recorded being the vertices the recorder held when the call was made
NeededBytes(call, recorded) ==
    CASE call[1] = "bridge_DrawArrays" -> call[4] * kStride
      [] call[1] = "bridge_DrawElements" -> MaxIndex(call[5], call[3], call[4]) * kStride
      [] call[1] = "bridge_End" -> recorded * kStride

\* C20: the capacity of a scratch buffer never decreases, a buffer is
\* reallocated only by a draw that needs more bytes than the capacity recorded
\* so far (and then to exactly the bytes needed), and a draw that needs no
\* more keeps the buffer and, if there is one, assembles into it.
C20_ScratchBufferOnlyGrows ==
    [][/\ uploadBuf'.bufCapacity >= uploadBuf.bufCapacity
       /\ endBuf'.bufCap >= endBuf.bufCap
       /\ uploadBuf' # uploadBuf
            => /\ lastCall'[1] \in ArrayDrawNames
               /\ NeededBytes(lastCall', gImmVertCount) > uploadBuf.bufCapacity
               /\ uploadBuf'.bufCapacity = NeededBytes(lastCall', gImmVertCount)
       /\ endBuf' # endBuf
            => /\ lastCall'[1] = "bridge_End"
               /\ NeededBytes(lastCall', gImmVertCount) > endBuf.bufCap
               /\ endBuf'.bufCap = NeededBytes(lastCall', gImmVertCount)
       /\ (/\ lastCall'[1] \in ArrayDrawNames
           /\ gShaderProgram # 0
           /\ NeededBytes(lastCall', gImmVertCount) <= uploadBuf.bufCapacity
           /\ uploadBuf.buf = "heap")
            => uploadBuf' = uploadBuf /\ ArrayUploadsIn(out') # {}
       /\ (/\ lastCall'[1] = "bridge_End"
           /\ gShaderProgram # 0 /\ gImmVertCount > 0
           /\ NeededBytes(lastCall', gImmVertCount) <= endBuf.bufCap
           /\ endBuf.buf = "heap")
            => endBuf' = endBuf /\ UploadsIn(out') # {}]_vars

\* glDrawArrays(4, 2, 2) has assembled its 96 bytes into the buffer of 144
\* bytes an earlier draw of three vertices allocated
C20_Witness ==
    /\ lastCall = <<"bridge_DrawArrays", 4, 2, 2>>
    /\ prevCall \in ArrayDrawNames
    /\ uploadBuf = [buf |-> "heap", bufCapacity |-> 144]
    /\ \E k \in ArrayUploadsIn(out) : out[k][3] = 96 /\ Len(out[k][4]) = 2

\* ------------------------------------------------------------------------
\* Setters and the flush
\* ------------------------------------------------------------------------

\* the entry points that only record legacy state
SetterNames ==
    {"bridge_MatrixMode", "bridge_LoadIdentity", "bridge_LoadMatrixf", "bridge_MultMatrixf",
     "bridge_PushMatrix", "bridge_PopMatrix", "bridge_Translatef", "bridge_Rotatef",
     "bridge_Scalef", "bridge_Ortho", "bridge_Frustum",
     "bridge_Lightfv", "bridge_LightModelfv", "bridge_Fogf", "bridge_Fogfv", "bridge_Fogi",
     "bridge_AlphaFunc", "bridge_Enable", "bridge_Disable", "bridge_Color4f", "bridge_Color4fv",
     "bridge_EnableClientState", "bridge_DisableClientState", "bridge_VertexPointer",
     "bridge_NormalPointer", "bridge_TexCoordPointer", "bridge_ColorPointer",
     "bridge_Normal3f", "bridge_TexCoord2f", "bridge_Begin", "bridge_Vertex3f", "bridge_Vertex2f"}

\* C21: no setter changes a uniform value of the shader or issues a draw call;
\* the uniforms stay as the last flush left them until the next flush.
C21_SettersLeaveUniforms ==
    [][lastCall'[1] \in SetterNames
       => uniforms' = uniforms /\ DrawsIn(out') = {}]_vars

\* glColor4f has been called right after a flush on a built shim: the shader
\* still holds the color the flush uploaded, not the new current color
C21_Witness ==
    /\ lastCall = <<"bridge_Color4f", 10, 20, 30, 40>>
    /\ prevCall = "bridge_FlushState"
    /\ gShaderProgram # 0
    /\ gCurrentColor = <<10, 20, 30, 40>>
    /\ uniforms.u_currentColor = <<100, 100, 100, 100>>

\* C22: a flush changes no matrix stack, light, fog, alpha-test, flag, current
\* color, client-array or immediate-mode state, and a flush made right after a
\* flush leaves every uniform value as the first one left it.
C22_FlushIdempotentReadOnly ==
    [][lastCall'[1] = "bridge_FlushState"
       => /\ legacyVars' = legacyVars
          /\ lastCall[1] = "bridge_FlushState" => uniforms' = uniforms]_vars

\* two flushes in a row on a built shim whose legacy state (fog and alpha test
\* enabled, a translated projection) differs from the defaults of the shader
C22_Witness ==
    /\ lastCall[1] = "bridge_FlushState" /\ prevCall = "bridge_FlushState"
    /\ gShaderProgram # 0
    /\ gFog.enabled /\ uniforms.u_fogEnabled = 1
    /\ uniforms.u_projMatrix = MatStack_Top(gMatProj)
    /\ uniforms.u_projMatrix # Mat4_Identity
    /\ uniforms.u_currentColor = gCurrentColor

\* ------------------------------------------------------------------------
\* Initialization and shutdown
\* ------------------------------------------------------------------------

\* C23: after every call of GLESBridge_Init all 8 lights are disabled and
\* light 0 has the diffuse color (1,1,1,1).
C23_InitResetsLights ==
    [][lastCall'[1] = "GLESBridge_Init"
       => /\ \A i \in 0..(MAX_LIGHTS - 1) : ~gLights'[i].enabled
          /\ gLights'[0].diffuse = <<100, 100, 100, 100>>]_vars

\* C24: a GLESBridge_Init call made while the shader program is present
\* compiles and links nothing and creates no GPU object; it leaves each of the
\* three stacks at depth 0 with an identity top and the model-view stack active.
C24_ReinitResetsStacksOnly ==
    [][(lastCall'[1] = "GLESBridge_Init" /\ gShaderProgram # 0)
       => /\ out' = <<>>
          /\ objVars' = objVars
          /\ gMatMV'.top = 0 /\ gMatProj'.top = 0 /\ gMatTex'.top = 0
          /\ MatStack_Top(gMatMV)' = Mat4_Identity
          /\ MatStack_Top(gMatProj)' = Mat4_Identity
          /\ MatStack_Top(gMatTex)' = Mat4_Identity
          /\ gCurrentStack' = "gMatMV"
          /\ gCurrentMode' = GL_MODELVIEW]_vars

\* GLESBridge_Init has been called on a built shim whose projection stack was
\* active, one deep and topped by a translation
C24_Witness ==
    /\ lastCall[1] = "GLESBridge_Init" /\ prevCall = "bridge_PushMatrix"
    /\ gShaderProgram = 1 /\ out = <<>>
    /\ gMatProj.top = 0 /\ gMatProj.stack[0] = Mat4_Identity
    /\ gMatProj.stack[1] = TranslateMatrix(1, 2, 3)
    /\ gCurrentStack = "gMatMV"

\* the commands of a list, as a set
CommandsOf(o) == {o[k] : k \in 1..Len(o)}

\* C25: GLESBridge_Shutdown deletes the shader program, both streaming buffers
\* and the vertex array object it finds, and nothing when called again; while
\* the program is gone every draw entry point does nothing; a GLESBridge_Init
\* made then compiles both shaders and, when the program links, creates the
\* GPU objects anew; and on a built shim the array draws issue a draw call
\* again, as glEnd does for the vertices it could assemble.
C25_ShutdownAndReinit ==
    [][/\ lastCall'[1] = "GLESBridge_Shutdown"
          => /\ gShaderProgram' = 0 /\ gStreamVBO' = 0 /\ gStreamIBO' = 0 /\ gVAO' = 0
             /\ gShaderProgram # 0 <=> <<"glDeleteProgram", gShaderProgram>> \in CommandsOf(out')
             /\ gStreamVBO # 0 <=> <<"glDeleteBuffers", gStreamVBO>> \in CommandsOf(out')
             /\ gStreamIBO # 0 <=> <<"glDeleteBuffers", gStreamIBO>> \in CommandsOf(out')
             /\ gVAO # 0 <=> <<"glDeleteVertexArrays", gVAO>> \in CommandsOf(out')
             /\ lastCall[1] = "GLESBridge_Shutdown" => out' = <<>>
       /\ (lastCall'[1] \in DrawEntryNames /\ gShaderProgram = 0)
          => /\ out' = <<>>
             /\ UNCHANGED <<legacyVars, gpuVars, scratchVars>>
       /\ (lastCall'[1] = "GLESBridge_Init" /\ gShaderProgram = 0)
          => /\ <<"glCompileShader", "GL_VERTEX_SHADER">> \in CommandsOf(out')
             /\ <<"glCompileShader", "GL_FRAGMENT_SHADER">> \in CommandsOf(out')
             /\ <<"glLinkProgram">> \in CommandsOf(out')
             /\ gShaderProgram' # 0
                => /\ gStreamVBO' # 0 /\ gStreamIBO' # 0 /\ gVAO' # 0
                   /\ {<<"glGenBuffers">>, <<"glGenVertexArrays">>} \subseteq CommandsOf(out')
       /\ (lastCall'[1] \in ArrayDrawNames /\ gShaderProgram # 0)
          => DrawsIn(out') # {}
       /\ (/\ lastCall'[1] = "bridge_End"
           /\ gShaderProgram # 0 /\ gImmVertCount >= 1 /\ endBuf'.buf # "NULL")
          => DrawsIn(out') # {}]_vars

\* GLESBridge_Init has rebuilt the shim right after a GLESBridge_Shutdown
C25_Witness ==
    /\ lastCall[1] = "GLESBridge_Init" /\ prevCall = "GLESBridge_Shutdown"
    /\ gShaderProgram # 0 /\ gStreamVBO # 0 /\ gStreamIBO # 0 /\ gVAO # 0
    /\ <<"glLinkProgram">> \in CommandsOf(out)
    /\ <<"glGenVertexArrays">> \in CommandsOf(out)

\* ------------------------------------------------------------------------
\* Toggles, lights
\* ------------------------------------------------------------------------

\* the capabilities the shim toggles itself
ShimCaps ==
    (GL_LIGHT0..(GL_LIGHT0 + 7))
    \cup {GL_LIGHTING, GL_COLOR_MATERIAL, GL_NORMALIZE, GL_ALPHA_TEST, GL_FOG, GL_TEXTURE_2D}

\* C26: for every capability the shim toggles itself, glIsEnabled(cap)
\* returns true after glEnable(cap) and false after glDisable(cap), a toggle of
\* one capability leaves the answer for every other one, and the query
\* returns that answer and changes nothing.
C26_QueryMirrorsToggles ==
    [][/\ \A cap \in ShimCaps :
            (lastCall'[1] \in {"bridge_Enable", "bridge_Disable"} /\ lastCall'[2] = cap)
            => /\ IsEnabled_Value(cap)' = (lastCall'[1] = "bridge_Enable")
               /\ \A other \in ShimCaps \ {cap} : IsEnabled_Value(other)' = IsEnabled_Value(other)
       /\ \A cap \in ShimCaps :
            (lastCall'[1] = "bridge_IsEnabled" /\ lastCall'[2] = cap)
            => /\ out'[Len(out')] = <<"return", IsEnabled_Value(cap)>>
               /\ UNCHANGED <<legacyVars, gpuVars, scratchVars>>]_vars

\* C27: glLightfv with a light token below GL_LIGHT0 or above GL_LIGHT7
\* changes no light; with a light in range and one of ambient, diffuse,
\* specular, position it overwrites that attribute of that light only, and
\* leaves the enabled flag of the light and every other light as they were.
C27_LightSetterTouchesOneAttribute ==
    [][lastCall'[1] = "bridge_Lightfv"
       => LET light == lastCall'[2]
              pname == lastCall'[3]
              params == lastCall'[4]
              i == light - GL_LIGHT0
          IN  IF light < GL_LIGHT0 \/ light > GL_LIGHT0 + 7
              THEN gLights' = gLights
              ELSE /\ \A j \in (0..(MAX_LIGHTS - 1)) \ {i} : gLights'[j] = gLights[j]
                   /\ gLights'[i].enabled = gLights[i].enabled
                   /\ gLights'[i].ambient = IF pname = GL_AMBIENT THEN params ELSE gLights[i].ambient
                   /\ gLights'[i].diffuse = IF pname = GL_DIFFUSE THEN params ELSE gLights[i].diffuse
                   /\ gLights'[i].specular = IF pname = GL_SPECULAR THEN params ELSE gLights[i].specular
                   /\ gLights'[i].position = IF pname = GL_POSITION THEN params ELSE gLights[i].position]_vars

\* glLightfv(GL_LIGHT1, GL_DIFFUSE, ...) has set the diffuse color of the
\* enabled light 1, whose position is the default; light 0 keeps its white
C27_Witness ==
    /\ lastCall = <<"bridge_Lightfv", GL_LIGHT0 + 1, GL_DIFFUSE, <<1, 2, 3, 0>>>>
    /\ prevCall = "bridge_Enable"
    /\ gLights[1].enabled
    /\ gLights[1].diffuse = <<1, 2, 3, 0>>
    /\ gLights[1].position = <<0, 0, 1, 0>>
    /\ gLights[0].diffuse = <<100, 100, 100, 100>>

\* ------------------------------------------------------------------------
\* Matrix arithmetic
\* ------------------------------------------------------------------------

\* the entry in a row and a column of a matrix stored column by column
Entry(M, row, col) == M[col * 4 + row]

\* the matrix product A * B of linear algebra, stored column by column
Product(A, B) ==
    [i \in 0..15 |->
        LET row == i % 4
            col == i \div 4
        IN  Entry(A, row, 0) * Entry(B, 0, col) + Entry(A, row, 1) * Entry(B, 1, col)
          + Entry(A, row, 2) * Entry(B, 2, col) + Entry(A, row, 3) * Entry(B, 3, col)]

\* the matrix a call multiplies the active top by
Multiplier(call) ==
    CASE call[1] = "bridge_MultMatrixf" -> call[2]
      [] call[1] = "bridge_Translatef" -> TranslateMatrix(call[2], call[3], call[4])
      [] call[1] = "bridge_Scalef" -> ScaleMatrix(call[2], call[3], call[4])
      [] call[1] = "bridge_Ortho" -> OrthoMatrix(call[2], call[3], call[4], call[5], call[6], call[7])
      [] call[1] = "bridge_Frustum" -> FrustumMatrix(call[2], call[3], call[4], call[5], call[6], call[7])

\* C28: glMultMatrixf(m) replaces the top T of the active stack by the product
\* T * m of the column-vector convention, and glTranslatef, glScalef, glOrtho
\* and glFrustum are that multiplication by the matrix they construct: they
\* compose onto the top, whatever it is.
C28_MultiplyIsRightProduct ==
    [][\A p \in StackNames :
         (/\ p = gCurrentStack
          /\ lastCall'[1] \in {"bridge_MultMatrixf", "bridge_Translatef", "bridge_Scalef",
                               "bridge_Ortho", "bridge_Frustum"})
         => MatStack_Top(Deref(p))' = Product(MatStack_Top(Deref(p)), Multiplier(lastCall'))]_vars

\* glMultMatrixf(m) has been called on a top scaled by (2,3,4), with an m that
\* does not commute with the scaling
C28_Witness ==
    /\ lastCall[1] = "bridge_MultMatrixf" /\ prevCall = "bridge_Scalef"
    /\ gCurrentStack = "gMatMV"
    /\ MatStack_Top(gMatMV) = Product(ScaleMatrix(2, 3, 4), lastCall[2])
    /\ MatStack_Top(gMatMV) # Product(lastCall[2], ScaleMatrix(2, 3, 4))

\* the points a transform is applied to
MaxCoord == 2
Points == {<<px, py, pz>> : px \in -MaxCoord..MaxCoord, py \in -MaxCoord..MaxCoord,
                            pz \in -MaxCoord..MaxCoord}

\* the image of the point p, as the column vector (p, 1), under the matrix M
Apply(M, p) ==
    [row \in 0..3 |-> Entry(M, row, 0) * p[1] + Entry(M, row, 1) * p[2]
                    + Entry(M, row, 2) * p[3] + Entry(M, row, 3)]

\* the point p as a column vector with w = 1
Homogeneous(p) == [row \in 0..3 |-> IF row = 3 THEN 1 ELSE p[row + 1]]

\* C29: after glLoadIdentity followed by glTranslatef(x, y, z), the top of the
\* active stack maps the origin to (x, y, z) and every point p to p + (x, y, z).
C29_TranslateMovesPoints ==
    [][\A s \in StackNames :
         (/\ s = gCurrentStack
          /\ lastCall[1] = "bridge_LoadIdentity"
          /\ lastCall'[1] = "bridge_Translatef")
         => \A p \in Points :
              Apply(MatStack_Top(Deref(s))', p)
                = Homogeneous(<<p[1] + lastCall'[2], p[2] + lastCall'[3], p[3] + lastCall'[4]>>)]_vars

\* glLoadIdentity then glTranslatef(-2, 0, 5) have run, and the top maps
\* (1, 1, 1) to (-1, 1, 6)
C29_Witness ==
    /\ prevCall = "bridge_LoadIdentity"
    /\ lastCall = <<"bridge_Translatef", -2, 0, 5>>
    /\ gCurrentStack \in StackNames
    /\ Apply(MatStack_Top(Deref(gCurrentStack)), <<1, 1, 1>>) = Homogeneous(<<-1, 1, 6>>)

\* an active stack whose top is the identity, and glOrtho(-1, 1, -1, 1, -1, 1) as the next call
OrthoCubeOnIdentity(s) ==
    /\ s = gCurrentStack
    /\ MatStack_Top(Deref(s)) = Mat4_Identity
    /\ lastCall' = <<"bridge_Ortho", -1, 1, -1, 1, -1, 1>>

\* C30 as stated: glOrtho(-1, 1, -1, 1, -1, 1) on an active top equal to the
\* identity leaves the top equal to the identity.
C30_OrthoCubeIsIdentity ==
    [][\A s \in StackNames :
         OrthoCubeOnIdentity(s) => MatStack_Top(Deref(s))' = Mat4_Identity]_vars

\* C30 amended: glOrtho(-1, 1, -1, 1, -1, 1) on an active top equal to the
\* identity leaves the top equal to the identity with the depth scale negated:
\* it keeps x and y of every point and negates z.
C30_OrthoCubeFlipsDepth ==
    [][\A s \in StackNames :
         OrthoCubeOnIdentity(s)
         => /\ MatStack_Top(Deref(s))' = [Mat4_Identity EXCEPT ![10] = -1]
            /\ \A p \in Points :
                 Apply(MatStack_Top(Deref(s))', p) = Homogeneous(<<p[1], p[2], 0 - p[3]>>)]_vars

\* glOrtho(-1, 1, -1, 1, -1, 1) has run right after glLoadIdentity, and the
\* top maps (1, 1, 1) to (1, 1, -1)
C30_Witness ==
    /\ prevCall = "bridge_LoadIdentity"
    /\ lastCall = <<"bridge_Ortho", -1, 1, -1, 1, -1, 1>>
    /\ gCurrentStack \in StackNames
    /\ Apply(MatStack_Top(Deref(gCurrentStack)), <<1, 1, 1>>) = Homogeneous(<<1, 1, -1>>)

\* ------------------------------------------------------------------------
\* Reading matrices back: the caller's matrix and glGetFloatv calls after
\* the scene set-up and on stacks two pushes short of full
\* ------------------------------------------------------------------------

MaxGetCalls == 3

GetInit ==
    /\ AfterSetup \/ AfterInit(MATRIX_STACK_DEPTH - 2)
    /\ budget = MaxGetCalls
    /\ OuterStatic

GetNext ==
    \/ \E mode \in {GL_MODELVIEW, GL_PROJECTION} : bridge_MatrixMode(mode) /\ Observe
    \/ bridge_PushMatrix /\ Observe
    \/ bridge_PopMatrix /\ Observe
    \/ \E t \in {<<1, 2, 3>>} : bridge_Translatef(t[1], t[2], t[3]) /\ Observe
    \/ \E pname \in {GL_MODELVIEW_MATRIX, GL_PROJECTION_MATRIX, 2849} :
          bridge_GetFloatv(pname) /\ ObserveStacks /\ UNCHANGED <<assetVars, touchVars>>
    \/ \E i \in {0, 12} : caller_store(i, 7) /\ ObserveStacks /\ UNCHANGED <<assetVars, touchVars>>

SpecGet == GetInit /\ [][GetNext]_vars

\* C31: glGetFloatv of the model-view or of the projection matrix leaves in
\* the caller's buffer the top of the requested stack, whichever stack is
\* active and whatever its depth, and changes no state of the shim; a later
\* store of the caller into that buffer changes no state of the shim either.
C31_GetMatrixCopiesTop ==
    [][/\ (lastCall'[1] = "bridge_GetFloatv" /\ lastCall'[2] = GL_MODELVIEW_MATRIX)
          => callerParams' = gMatMV.stack[gMatMV.top]
       /\ (lastCall'[1] = "bridge_GetFloatv" /\ lastCall'[2] = GL_PROJECTION_MATRIX)
          => callerParams' = gMatProj.stack[gMatProj.top]
       /\ lastCall'[1] \in {"bridge_GetFloatv", "caller_store"}
          => UNCHANGED <<legacyVars, gpuVars, scratchVars>>]_vars

\* the caller read the projection top, a translation, while the model-view
\* stack was active, and then stored into its copy
C31_Witness ==
    /\ prevCall = "bridge_GetFloatv"
    /\ lastCall[1] = "caller_store"
    /\ gCurrentStack = "gMatMV"
    /\ gMatProj.stack[gMatProj.top] = TranslateMatrix(1, 2, 3)
    /\ callerParams # gMatProj.stack[gMatProj.top]
    /\ callerParams = [TranslateMatrix(1, 2, 3) EXCEPT ![lastCall[2]] = lastCall[3]]

\* the last glMatrixMode call named none of the three stacks
UnknownModeSelected == gCurrentMode \notin {GL_MODELVIEW, GL_PROJECTION, GL_TEXTURE}

\* C32: glMatrixMode with a mode other than model-view, projection or texture
\* makes the model-view stack the active one: every matrix operation that
\* follows, until the next glMatrixMode, acts on the model-view stack and
\* leaves the projection and the texture stack unchanged.
C32_UnknownModeSelectsModelView ==
    [][/\ (lastCall'[1] = "bridge_MatrixMode" /\ UnknownModeSelected')
          => gCurrentStack' = "gMatMV"
       /\ (UnknownModeSelected /\ lastCall'[1] \in MatrixOpNames)
          => /\ gMatProj' = gMatProj /\ gMatTex' = gMatTex
             /\ UnknownModeSelected'
             /\ lastCall'[1] = "bridge_LoadIdentity"
                => gMatMV' = [gMatMV EXCEPT !.stack[gMatMV.top] = Mat4_Identity]
             /\ lastCall'[1] = "bridge_LoadMatrixf"
                => gMatMV' = [gMatMV EXCEPT !.stack[gMatMV.top] = lastCall'[2]]
             /\ lastCall'[1] \in {"bridge_MultMatrixf", "bridge_Translatef", "bridge_Scalef",
                                  "bridge_Ortho", "bridge_Frustum"}
                => gMatMV' = [gMatMV EXCEPT !.stack[gMatMV.top] =
                                 Product(gMatMV.stack[gMatMV.top], Multiplier(lastCall'))]
             /\ (lastCall'[1] = "bridge_PushMatrix" /\ gMatMV.top + 1 < MATRIX_STACK_DEPTH)
                => gMatMV'.top = gMatMV.top + 1
             /\ (lastCall'[1] = "bridge_PopMatrix" /\ gMatMV.top > 0)
                => gMatMV'.top = gMatMV.top - 1]_vars

\* the projection stack was active and scaled, glMatrixMode(0) was called, and
\* the translation that followed went to the model-view stack
C32_Witness ==
    /\ UnknownModeSelected
    /\ prevCall = "bridge_MatrixMode"
    /\ lastCall[1] = "bridge_Translatef"
    /\ MatStack_Top(gMatProj) = ScaleMatrix(2, 3, 4)
    /\ MatStack_Top(gMatMV) = TranslateMatrix(1, 2, 3)

\* ------------------------------------------------------------------------
\* The shader program: what kVertexShaderSrc and kFragmentShaderSrc compute
\* from the uniforms of a draw
\* ------------------------------------------------------------------------

GL_NEVER == 512
GL_LESS == 513
GL_EQUAL == 514
GL_LEQUAL == 515
GL_GREATER == 516
GL_NOTEQUAL == 517
GL_GEQUAL == 518

\* the alpha comparison with 0x0203 and 0x0206 compared strictly
kFragmentShaderSrc_pass_Strict(u, a) ==
    LET r == u.u_alphaRef
    IN  IF u.u_alphaFunc = 519 THEN TRUE
        ELSE IF u.u_alphaFunc = 512 THEN FALSE
        ELSE IF u.u_alphaFunc = 513 THEN a < r
        ELSE IF u.u_alphaFunc = 514 THEN a = r
        ELSE IF u.u_alphaFunc = 515 THEN a < r
        ELSE IF u.u_alphaFunc = 516 THEN a > r
        ELSE IF u.u_alphaFunc = 517 THEN a # r
        ELSE IF u.u_alphaFunc = 518 THEN a > r
        ELSE TRUE

\* bool pass of the fragment shader, for a fragment whose color.a is a
kFragmentShaderSrc_pass(u, a) ==
    LET r == u.u_alphaRef
    IN  IF u.u_alphaFunc = 519 THEN TRUE
        ELSE IF u.u_alphaFunc = 512 THEN FALSE
        ELSE IF u.u_alphaFunc = 513 THEN a < r
        ELSE IF u.u_alphaFunc = 514 THEN a = r
        ELSE IF u.u_alphaFunc = 515 THEN a <= r
        ELSE IF u.u_alphaFunc = 516 THEN a > r
        ELSE IF u.u_alphaFunc = 517 THEN a # r
        ELSE IF u.u_alphaFunc = 518 THEN a >= r
        ELSE TRUE

\* the fragment shader reaches fragColor = color: it does not discard
kFragmentShaderSrc_kept(u, a) ==
    IF u.u_alphaTestEnabled # 0 THEN kFragmentShaderSrc_pass(u, a) ELSE TRUE

\* v_color of the vertex shader taking the attribute whatever u_hasVertexColors says
kVertexShaderSrc_v_color_Attribute(u, a_color, lit) ==
    IF u.u_lightingEnabled # 0 THEN lit ELSE a_color

\* v_color of the vertex shader for a vertex whose color attribute is a_color;
\* lit stands for the clamped sum of the lighting branch
kVertexShaderSrc_v_color(u, a_color, lit) ==
    LET baseColor == IF u.u_hasVertexColors # 0 THEN a_color ELSE u.u_currentColor
    IN  IF u.u_lightingEnabled # 0 THEN lit ELSE baseColor

\* ------------------------------------------------------------------------
\* Shading: the caller's state setters and draws after GLESBridge_Init and
\* after the scene set-up
\* ------------------------------------------------------------------------

MaxShadeCalls == 3

AlphaFuncInputs ==
    {GL_NEVER, GL_LESS, GL_EQUAL, GL_LEQUAL, GL_GREATER, GL_NOTEQUAL, GL_GEQUAL, GL_ALWAYS}

\* count, type and index buffer of a glDrawElements call: two indices, no
\* index, and two elements of a type that is no index type
ShadeElementsInputs ==
    {<<2, "GL_UNSIGNED_SHORT", << <<0, 1>>, <<0, 0>> >> >>,
     <<0, "GL_UNSIGNED_SHORT", << <<0, 1>>, <<0, 0>> >> >>,
     <<2, "GL_FLOAT", << <<0, 1>>, <<0, 0>> >> >>}

ShadeInit ==
    /\ AfterInit(0) \/ AfterSetup
    /\ budget = MaxShadeCalls
    /\ OuterStatic

ShadeNext ==
    \/ \E func \in AlphaFuncInputs : bridge_AlphaFunc(func, 50) /\ Observe
    \/ \E cap \in {GL_ALPHA_TEST, GL_FOG, GL_LIGHTING} : bridge_Enable(cap) /\ Observe
    \/ \E cap \in {GL_ALPHA_TEST, GL_FOG, GL_LIGHTING} : bridge_Disable(cap) /\ Observe
    \/ bridge_Fogf(GL_FOG_START, 30) /\ Observe
    \/ bridge_Color4f(10, 20, 30, 40) /\ Observe
    \/ bridge_FlushState /\ Observe
    \/ bridge_EnableClientState(GL_COLOR_ARRAY) /\ Observe
    \/ bridge_DisableClientState(GL_COLOR_ARRAY) /\ Observe
    \/ \E pointer \in {0, 4000} : bridge_ColorPointer(4, "GL_FLOAT", 0, pointer) /\ Observe
    \/ \E mallocOK \in BOOLEAN : bridge_DrawArrays(4, 0, 2, mallocOK) /\ Observe
    \/ \E e \in ShadeElementsInputs : bridge_DrawElements(4, e[1], e[2], e[3], TRUE) /\ Observe

SpecShade == ShadeInit /\ [][ShadeNext]_vars

\* ------------------------------------------------------------------------
\* Alpha test and vertex colors
\* ------------------------------------------------------------------------

\* the relation a func ref of the fixed-function alpha test
AlphaRelation(func, a, ref) ==
    CASE func = GL_NEVER -> FALSE
      [] func = GL_LESS -> a < ref
      [] func = GL_EQUAL -> a = ref
      [] func = GL_LEQUAL -> a <= ref
      [] func = GL_GREATER -> a > ref
      [] func = GL_NOTEQUAL -> a # ref
      [] func = GL_GEQUAL -> a >= ref
      [] func = GL_ALWAYS -> TRUE

\* the alpha values of the fragments tested against the reference 0.5
FragmentAlphas == {49, 50, 51}

\* C33: glAlphaFunc(func, ref) is what sets the function and the reference of
\* the alpha test, and at every draw issued with the alpha test enabled and
\* one of the 8 comparison functions selected, the fragment shader keeps a
\* fragment of alpha a exactly when a func ref holds, for a in 0.49, 0.5,
\* 0.51, func and ref being those of the last glAlphaFunc call.
C33_AlphaTestFollowsFunction ==
    [][/\ IF lastCall'[1] = "bridge_AlphaFunc"
          THEN gAlphaTest'.func = lastCall'[2] /\ gAlphaTest'.ref = lastCall'[3]
          ELSE gAlphaTest'.func = gAlphaTest.func /\ gAlphaTest'.ref = gAlphaTest.ref
       /\ (/\ DrawsIn(out') # {}
           /\ gAlphaTest.enabled
           /\ gAlphaTest.func \in AlphaFuncInputs)
          => \A a \in FragmentAlphas :
                kFragmentShaderSrc_kept(uniforms', a)
                  <=> AlphaRelation(gAlphaTest.func, a, gAlphaTest.ref)]_vars

\* glAlphaFunc(GL_GEQUAL, 0.5) was called with the alpha test disabled, the
\* test was enabled, and the draw that followed keeps 0.5 and 0.51 and
\* discards 0.49
C33_Witness ==
    /\ lastCall[1] = "bridge_DrawArrays" /\ prevCall = "bridge_Enable"
    /\ DrawsIn(out) # {}
    /\ gAlphaTest = [func |-> GL_GEQUAL, ref |-> 50, enabled |-> TRUE]
    /\ ~kFragmentShaderSrc_kept(uniforms, 49)
    /\ kFragmentShaderSrc_kept(uniforms, 50)
    /\ kFragmentShaderSrc_kept(uniforms, 51)

\* the color attributes the vertex shader can be fed by the draw of a call:
\* those of the vertices the call uploaded, or, when it uploaded none, whatever
\* an earlier upload left in the streaming buffer
AttributeColors(o) ==
    IF ArrayUploadsIn(o) # {}
    THEN UNION {{<<o[k][4][i].r, o[k][4][i].g, o[k][4][i].b, o[k][4][i].a>> :
                    i \in 1..Len(o[k][4])} : k \in ArrayUploadsIn(o)}
    ELSE {<<1, 2, 3, 4>>, gCurrentColor}

\* C34: at every glDrawArrays and glDrawElements draw issued with lighting
\* disabled and the color array not enabled, the vertex shader gives every
\* vertex the color gCurrentColor holds at the call, whatever the color
\* pointer is and whatever calls came before.
C34_UnlitDrawUsesCurrentColor ==
    [][(/\ lastCall'[1] \in ArrayDrawNames
        /\ DrawsIn(out') # {}
        /\ ~gLightingEnabled
        /\ ~gColorArray.enabled)
       => \A a_color \in AttributeColors(out') :
             kVertexShaderSrc_v_color(uniforms', a_color, Vec4_Zero) = gCurrentColor]_vars

\* a draw ran with lighting disabled and the color array not enabled but its
\* pointer set, right after glColor4f(.1, .2, .3, .4)
C34_Witness ==
    /\ lastCall[1] \in ArrayDrawNames /\ prevCall = "bridge_Color4f"
    /\ DrawsIn(out) # {}
    /\ ~gLightingEnabled /\ ~gColorArray.enabled /\ gColorArray.pointer = 4000
    /\ gCurrentColor = <<10, 20, 30, 40>>
    /\ kVertexShaderSrc_v_color(uniforms, <<1, 2, 3, 4>>, Vec4_Zero) = <<10, 20, 30, 40>>

\* bridge_FlushState ran in the call that left the commands o
FlushRan(o) == \E k \in 1..Len(o) : o[k][1] = "glUseProgram"

\* C36: bridge_FlushState uploads the fog color, start and end only when fog
\* is enabled, and the alpha reference and function only when the alpha test
\* is enabled: after a flush with the feature enabled, and so at every draw
\* issued with it enabled, those uniforms hold the current fog (alpha-test)
\* state, values set while the feature was disabled included; after a flush
\* with the feature disabled they hold what they held before it.
C36_FogAndAlphaUploadedWhenEnabled ==
    [][(FlushRan(out') \/ DrawsIn(out') # {})
       => /\ FlushRan(out')
          /\ <<uniforms'.u_fogColor, uniforms'.u_fogStart, uniforms'.u_fogEnd>>
               = IF gFog.enabled
                 THEN <<gFog.color, gFog.start, gFog.end>>
                 ELSE <<uniforms.u_fogColor, uniforms.u_fogStart, uniforms.u_fogEnd>>
          /\ <<uniforms'.u_alphaRef, uniforms'.u_alphaFunc>>
               = IF gAlphaTest.enabled
                 THEN <<gAlphaTest.ref, gAlphaTest.func>>
                 ELSE <<uniforms.u_alphaRef, uniforms.u_alphaFunc>>]_vars

\* the fog start was set to .3 while fog was disabled, fog was enabled, and
\* the draw that followed uploaded .3
C36_Witness ==
    /\ lastCall[1] \in ArrayDrawNames /\ prevCall = "bridge_Enable"
    /\ DrawsIn(out) # {}
    /\ ~gLightingEnabled
    /\ gFog.enabled /\ gFog.start = 30
    /\ uniforms.u_fogStart = 30

\* the call that left the commands o read colors from the caller's color array
ColorsReadFromArray(o) == \E k \in ReadsIn(o) : o[k][2] = "color"

\* C37: at every glDrawArrays and glDrawElements draw, the u_hasVertexColors
\* flag uploaded for the draw is true exactly when the color array is enabled
\* and its pointer is not null, and exactly then the vertex colors assembled
\* for that draw were read from the color array instead of gCurrentColor.
C37_FlagMatchesAssembledColors ==
    [][(lastCall'[1] \in ArrayDrawNames /\ DrawsIn(out') # {})
       => /\ (uniforms'.u_hasVertexColors # 0)
               <=> (gColorArray.enabled /\ gColorArray.pointer # 0)
          /\ (uniforms'.u_hasVertexColors # 0) <=> ColorsReadFromArray(out')]_vars

\* C38: glDrawElements with count 0, or with an index type other than
\* GL_UNSIGNED_BYTE, GL_UNSIGNED_SHORT and GL_UNSIGNED_INT, references no
\* vertex and reads nothing from the caller's client arrays.
C38_EmptyIndexedDrawReadsNothing ==
    [][(/\ lastCall'[1] = "bridge_DrawElements"
        /\ \/ lastCall'[3] = 0
           \/ lastCall'[4] \notin {"GL_UNSIGNED_BYTE", "GL_UNSIGNED_SHORT", "GL_UNSIGNED_INT"})
       => ReadsIn(out') = {}]_vars

\* ------------------------------------------------------------------------
\* Client arrays: the caller's descriptor calls after GLESBridge_Init and
\* after four arrays were described and enabled
\* ------------------------------------------------------------------------

MaxArrayCalls == 3

ArrayTokens == {GL_VERTEX_ARRAY, GL_NORMAL_ARRAY, GL_COLOR_ARRAY, GL_TEXTURE_COORD_ARRAY}

ArraysInit ==
    /\ AfterInit(0) \/ AfterArrays
    /\ budget = MaxArrayCalls
    /\ OuterStatic

ArraysNext ==
    \/ \E array \in ArrayTokens \cup {GL_VERTEX_ARRAY + 3} :
          bridge_EnableClientState(array) /\ Observe
    \/ \E array \in ArrayTokens \cup {GL_VERTEX_ARRAY + 3} :
          bridge_DisableClientState(array) /\ Observe
    \/ \E pointer \in {0, 1016} : bridge_VertexPointer(2, "GL_FLOAT", 16, pointer) /\ Observe
    \/ \E pointer \in {0, 2016} : bridge_NormalPointer("GL_FLOAT", 12, pointer) /\ Observe
    \/ \E pointer \in {0, 3016} : bridge_TexCoordPointer(2, "GL_FLOAT", 8, pointer) /\ Observe
    \/ \E pointer \in {0, 4016} : bridge_ColorPointer(3, "GL_UNSIGNED_BYTE", 4, pointer) /\ Observe

SpecArrays == ArraysInit /\ [][ArraysNext]_vars

\* the call that describes a channel, and the token that names it
PointerCall(name) ==
    CASE name = "position" -> "bridge_VertexPointer"
      [] name = "normal" -> "bridge_NormalPointer"
      [] name = "texcoord" -> "bridge_TexCoordPointer"
      [] name = "color" -> "bridge_ColorPointer"

ArrayToken(name) ==
    CASE name = "position" -> GL_VERTEX_ARRAY
      [] name = "normal" -> GL_NORMAL_ARRAY
      [] name = "texcoord" -> GL_TEXTURE_COORD_ARRAY
      [] name = "color" -> GL_COLOR_ARRAY

\* the descriptor fields a gl*Pointer call gives: glNormalPointer has no
\* component count and stands for 3
DescribedBy(call) ==
    IF call[1] = "bridge_NormalPointer"
    THEN [size |-> 3, type |-> call[2], stride |-> call[3], pointer |-> call[4]]
    ELSE [size |-> call[2], type |-> call[3], stride |-> call[4], pointer |-> call[5]]

\* C35: for each of the four client arrays, its gl*Pointer call overwrites
\* size, type, stride and pointer and keeps the enabled flag;
\* glEnableClientState and glDisableClientState of its token change its
\* enabled flag only, whether or not a pointer was set; and none of these
\* calls changes a field of another array.
C35_DescriptorsAreIndependent ==
    [][\A name \in {"position", "normal", "texcoord", "color"} :
         LET d == Descriptor(name) IN
         /\ lastCall'[1] = PointerCall(name)
            => Descriptor(name)' = [enabled |-> d.enabled,
                                    size |-> DescribedBy(lastCall').size,
                                    type |-> DescribedBy(lastCall').type,
                                    stride |-> DescribedBy(lastCall').stride,
                                    pointer |-> DescribedBy(lastCall').pointer]
         /\ (lastCall'[1] = "bridge_EnableClientState" /\ lastCall'[2] = ArrayToken(name))
            => Descriptor(name)' = [d EXCEPT !.enabled = TRUE]
         /\ (lastCall'[1] = "bridge_DisableClientState" /\ lastCall'[2] = ArrayToken(name))
            => Descriptor(name)' = [d EXCEPT !.enabled = FALSE]
         /\ (/\ lastCall'[1] \in {"bridge_VertexPointer", "bridge_NormalPointer",
                                  "bridge_TexCoordPointer", "bridge_ColorPointer"}
             /\ lastCall'[1] # PointerCall(name))
            => Descriptor(name)' = d
         /\ (/\ lastCall'[1] \in {"bridge_EnableClientState", "bridge_DisableClientState"}
             /\ lastCall'[2] # ArrayToken(name))
            => Descriptor(name)' = d]_vars

\* the normal array was enabled before any pointer was set for it, then
\* described: it is still enabled, and the other arrays are as they were
C35_Witness ==
    /\ prevCall = "bridge_EnableClientState"
    /\ lastCall = <<"bridge_NormalPointer", "GL_FLOAT", 12, 2016>>
    /\ gNormalArray = [enabled |-> TRUE, size |-> 3, type |-> "GL_FLOAT", stride |-> 12,
                       pointer |-> 2016]
    /\ gVertexArray = ClientArray_Static(4)
    /\ gColorArray = ClientArray_Static(4)
    /\ gTexCoordArray = ClientArray_Static(2)

\* ------------------------------------------------------------------------
\* Asset extraction (src/src/Android/AndroidAssets.c)
\* ------------------------------------------------------------------------

\* What can happen to the copy of one file: every byte is copied; the asset
\* cannot be opened; the destination cannot be created; a write comes up
\* short; a read fails before the end of the asset, which SDL_ReadIO reports
\* by the same 0 as the end of the file.
CopyOutcomes == {"copied", "open_failed", "create_failed", "write_error", "read_error"}

\* ExtractOneFile reporting a failed read
ExtractOneFile_ChecksRead(outcome) == outcome = "copied"

\* the value ExtractOneFile returns
ExtractOneFile(outcome) == outcome \in {"copied", "read_error"}

\* the destination file ExtractOneFile leaves, from the file before
ExtractOneFile_dest(before, outcome) ==
    CASE outcome = "copied" -> "whole"
      [] outcome \in {"open_failed", "create_failed"} -> before
      [] outcome \in {"write_error", "read_error"} -> "truncated"

\* the version file after fopen(versionFile, "w") and fputs: written, not
\* opened, or opened and left empty
StampOutcomes == {"written", "open_failed", "empty"}

StampAfter(before, outcome) ==
    CASE outcome = "written" -> "current"
      [] outcome = "open_failed" -> before
      [] outcome = "empty" -> "empty"

\* outcomes: what happens to each file of the list, in order; stampOutcome:
\* what happens to the write of the version file
Android_ExtractAssets(outcomes, stampOutcome) ==
    /\ Enter(<<"Android_ExtractAssets", outcomes, stampOutcome>>)
    /\ IF stamp = "current"
       THEN /\ out' = << <<"LOGI", "Assets already extracted">>, <<"return", TRUE>> >>
            /\ UNCHANGED assetVars
       ELSE LET failedFiles == Cardinality({i \in 1..NumDataFiles : ~ExtractOneFile(outcomes[i])})
            IN  /\ destFiles' = [i \in 1..NumDataFiles |->
                                   ExtractOneFile_dest(destFiles[i], outcomes[i])]
                /\ everCopiedAll' = (everCopiedAll \/ \A i \in 1..NumDataFiles : outcomes[i] = "copied")
                /\ IF failedFiles > 0
                   THEN /\ stamp' = stamp
                        /\ out' = << <<"LOGE", "Asset extraction: files failed">>,
                                     <<"return", FALSE>> >>
                   ELSE /\ stamp' = StampAfter(stamp, stampOutcome)
                        /\ out' = << <<"LOGI", "Asset extraction complete">>,
                                     <<"return", TRUE>> >>
    /\ UNCHANGED <<legacyVars, gpuVars, scratchVars, crashed, callerVars, touchVars>>

MaxRuns == 3

\* a fresh installation, or the directory an older version of the game left
AssetsInit ==
    /\ StaticInit
    /\ budget = MaxRuns
    /\ CallerStatic
    /\ TouchStatic
    /\ \/ AssetsStatic
       \/ /\ stamp = "old"
          /\ destFiles = [i \in 1..NumDataFiles |-> "stale"]
          /\ everCopiedAll = FALSE

AssetsNext ==
    \E outcomes \in [1..NumDataFiles -> CopyOutcomes], stampOutcome \in StampOutcomes :
        Android_ExtractAssets(outcomes, stampOutcome) /\ ObserveStacks

SpecAssets == AssetsInit /\ [][AssetsNext]_vars

\* C39: over any sequence of Android_ExtractAssets runs, the version file
\* holds the current version only if some earlier run copied every listed
\* file whole; and a run in which the copy of a file fails returns false and
\* leaves the version file as it was, so that the next run extracts again.
C39_StampOnlyAfterFullCopy ==
    /\ [](stamp = "current" => everCopiedAll)
    /\ [][(/\ lastCall'[1] = "Android_ExtractAssets"
           /\ stamp # "current"
           /\ \E i \in 1..NumDataFiles : lastCall'[2][i] # "copied")
          => /\ out'[Len(out')] = <<"return", FALSE>>
             /\ stamp' = stamp]_vars

\* ------------------------------------------------------------------------
\* Touch controls (src/src/Android/TouchControls.c)
\* ------------------------------------------------------------------------

\* Where a finger comes down: hit is what HitButton returns for the point,
\* the button whose circle holds it or -1, and joy what HitJoystick returns.
TouchTargets == {<<0, FALSE>>, <<3, FALSE>>, <<-1, TRUE>>, <<-1, FALSE>>}

\* what SDL_EVENT_FINGER_DOWN does to the globals
FingerDown_state(fid, hit, joy) ==
    IF hit >= 0
    THEN /\ gBtnDown' = [gBtnDown EXCEPT ![hit] = TRUE]
         /\ gBtnFinger' = [gBtnFinger EXCEPT ![hit] = fid]
         /\ UNCHANGED <<gJoyActive, gJoyFinger>>
    ELSE IF joy /\ ~gJoyActive
         THEN /\ gJoyActive' = TRUE
              /\ gJoyFinger' = fid
              /\ UNCHANGED <<gBtnDown, gBtnFinger>>
         ELSE UNCHANGED <<gBtnDown, gBtnFinger, gJoyActive, gJoyFinger>>

\* the first button whose finger is fid, or -1
ButtonOfFinger(fid) ==
    IF \E i \in 0..(kTouchBtn_COUNT - 1) : gBtnFinger[i] = fid
    THEN CHOOSE i \in 0..(kTouchBtn_COUNT - 1) :
            /\ gBtnFinger[i] = fid
            /\ \A j \in 0..(i - 1) : gBtnFinger[j] # fid
    ELSE -1

\* what SDL_EVENT_FINGER_UP does to the globals
FingerUp_state(fid) ==
    LET btn == ButtonOfFinger(fid)
    IN  IF btn >= 0
        THEN /\ gBtnDown' = [gBtnDown EXCEPT ![btn] = FALSE]
             /\ gBtnFinger' = [gBtnFinger EXCEPT ![btn] = -1]
             /\ UNCHANGED <<gJoyActive, gJoyFinger>>
        ELSE IF gJoyFinger = fid
             THEN /\ gJoyActive' = FALSE
                  /\ gJoyFinger' = -1
                  /\ UNCHANGED <<gBtnDown, gBtnFinger>>
             ELSE UNCHANGED <<gBtnDown, gBtnFinger, gJoyActive, gJoyFinger>>

\* an entry point of the touch controls: it writes nothing of the bridge
TouchFrame == UNCHANGED <<legacyVars, gpuVars, scratchVars, crashed, callerVars, assetVars>>

\* TouchControls_ProcessEvent of SDL_EVENT_FINGER_DOWN, for a lifted finger
TouchControls_ProcessEvent_Down(fid, hit, joy) ==
    /\ fingers[fid] = Lifted
    /\ Enter(<<"SDL_EVENT_FINGER_DOWN", fid, hit, joy>>)
    /\ FingerDown_state(fid, hit, joy)
    /\ fingers' = [fingers EXCEPT ![fid] = Held(hit)]
    /\ out' = << <<"return", hit >= 0 \/ (joy /\ ~gJoyActive)>> >>
    /\ TouchFrame

\* TouchControls_ProcessEvent of SDL_EVENT_FINGER_UP, for a finger that is down
TouchControls_ProcessEvent_Up(fid) ==
    /\ fingers[fid] # Lifted
    /\ Enter(<<"SDL_EVENT_FINGER_UP", fid>>)
    /\ FingerUp_state(fid)
    /\ fingers' = [fingers EXCEPT ![fid] = Lifted]
    /\ out' = << <<"return", ButtonOfFinger(fid) >= 0 \/ gJoyFinger = fid>> >>
    /\ TouchFrame

\* TouchControls_ProcessEvent of SDL_EVENT_FINGER_MOTION, for a finger that is
\* down: it moves the joystick, whose position is not held here
TouchControls_ProcessEvent_Motion(fid) ==
    /\ fingers[fid] # Lifted
    /\ Enter(<<"SDL_EVENT_FINGER_MOTION", fid>>)
    /\ out' = << <<"return", gJoyFinger = fid /\ gJoyActive>> >>
    /\ UNCHANGED touchVars
    /\ TouchFrame

TouchControls_IsButtonDown(btn) ==
    IF btn < 0 \/ btn >= kTouchBtn_COUNT THEN FALSE ELSE gBtnDown[btn]

MaxTouchEvents == 4

TouchInit ==
    /\ StaticInit
    /\ budget = MaxTouchEvents
    /\ OuterStatic

TouchNext ==
    \/ \E fid \in 1..NumFingers, t \in TouchTargets :
          TouchControls_ProcessEvent_Down(fid, t[1], t[2]) /\ ObserveStacks
    \/ \E fid \in 1..NumFingers : TouchControls_ProcessEvent_Up(fid) /\ ObserveStacks
    \/ \E fid \in 1..NumFingers : TouchControls_ProcessEvent_Motion(fid) /\ ObserveStacks

SpecTouch == TouchInit /\ [][TouchNext]_vars

\* C40: in any interleaving of finger-down, finger-motion and finger-up
\* events of several fingers, each finger alternating down and up, a button
\* reports down exactly while some finger that went down on it is not yet
\* lifted.
C40_ButtonDownWhileFingerHeld ==
    \A btn \in 0..(kTouchBtn_COUNT - 1) :
        TouchControls_IsButtonDown(btn) <=> \E f \in 1..NumFingers : fingers[f] = Held(btn)

====
